---- MODULE Spec2Model ----
(***************************************************************************)
(* Agent collaboration layer of mcp-global-rules: the file mailbox and     *)
(* presence store (scripts/agent_comms.py), the channel bridge             *)
(* (scripts/telegram_bridge.py) and the supervisor                         *)
(* (scripts/agent_launcher.py).  Each subsystem has its own next-state     *)
(* relation over the shared state; Init is the state of a fresh deployment.*)
(***************************************************************************)
EXTENDS Integers, Sequences, FiniteSets, TLC

(***************************************************************************)
(* Bounds of the model.                                                    *)
(***************************************************************************)
MaxClock == 1
MaxSends == 2

(***************************************************************************)
(* Host identities.  get_hostname() returns a string; a file name joins    *)
(* the recipient, the sender and the id with "_".  An identity is kept as  *)
(* the sequence of its "_"-separated parts, so that "B_A" is <<"B","A">>   *)
(* and the glob prefix test can be computed on the parts.                  *)
(***************************************************************************)
HostA == <<"A">>
HostB == <<"B">>
HostBA == <<"B", "A">>
Hosts == {HostA, HostB, HostBA}

Senders == {HostA}
Recipients == {HostB, HostBA}

\* A text is kept as the sequence of its words (str.split()).
TextPing == <<"ping">>
TextStatus == <<"status">>

\* The (type, text) pairs the senders of the model use.
Sendable == {<<"task", TextPing>>, <<"ack", TextStatus>>}

VARIABLES
  clock,        \* time.time() in milliseconds
  mailbox,      \* .nsync_agents/messages: file name -> file body
  nsent,        \* number of send_message calls so far
  delivered,    \* per send_message call: how many listen calls returned it
  lastOp        \* the last mailbox call, its arguments and its result

mailVars == <<clock, mailbox, nsent, delivered, lastOp>>

VARIABLES
  now,          \* time.time() in seconds
  presence,     \* .nsync_agents/*.json: file stem -> presence record
  inbox,        \* .nsync_agents/telegram_inbox: file name -> [body, mtime]
  lastPoll      \* the last listen_for_telegram_messages() call and its decisions

electVars == <<now, presence, inbox, lastPoll>>

VARIABLES
  loop,         \* per Agent Loop host: position, drained messages still to handle
  outbox,       \* .nsync_agents/telegram_outbox: file name -> file body
  cycle         \* per Agent Loop host: the batch of the last poll and the replies to it

loopVars == <<loop, outbox, cycle>>

VARIABLES
  launcher,     \* per start attempt of agent_launcher.py: position in __main__
  pidFile,      \* /tmp/agent_launcher.pid: 0 when absent, else the pid it holds
  sup,          \* per start attempt: the state of run_collaboration
  config,       \* whether scripts/telegram_config.json exists
  raises        \* number of calls of the supervision loop that raised so far

supVars == <<launcher, pidFile, sup, config, raises>>

VARIABLES
  bridge,       \* the Channel Bridge: position in the loop of main()
  staged,       \* the temp buffer directory of check_outbox: file name -> body
  endpoint      \* the sendMessage endpoint: texts queued, texts it accepted, failures so far

VARIABLES
  server,       \* the getUpdates endpoint: the updates it holds, the highest id confirmed
  cursor,       \* per bridge host: last_update_id in memory and in telegram_config.json
  pollLog       \* the last poll_telegram call and, per host, how often each update was routed

inVars == <<server, cursor, pollLog>>

bridgeVars == <<bridge, staged, endpoint, inVars>>

VARIABLES
  lastRead      \* the last `mcp comms` read of the presence store and its result

cliVars == <<lastRead>>

VARIABLES
  repo,         \* the NSync git repository of this host and its peer's master
  syncLog       \* the commands of the last sync() cycle and their exit statuses

syncVars == <<repo, syncLog>>

VARIABLES
  writable,     \* whether the shared directory accepts writes (open(..., "w") succeeds)
  platform      \* os.name of the host: "posix" or "nt"
ioVars == <<writable, platform>>

VARIABLES
  recv,         \* each receiving process of one host: its position in listen_for_messages
  crashed,      \* history: uids parsed by a call that crashed before its unlink
  watch         \* the watcher process of nsync: handler fields, pending events, threads
watchVars == <<recv, crashed, watch>>

toolVars == <<cliVars, syncVars, ioVars, watchVars>>

vars == <<mailVars, electVars, loopVars, supVars, bridgeVars, toolVars>>

\* What the calls of one subsystem leave alone.
procVars == <<supVars, bridgeVars, toolVars>>
procRest == <<supVars, bridgeVars, cliVars, ioVars, watchVars>>
notMail == <<electVars, loopVars, procVars>>
notElect == <<mailVars, loopVars, procVars>>
notPresence == <<mailVars, loopVars, supVars, bridgeVars, cliVars, ioVars, watchVars>>
notSup == <<mailVars, presence, inbox, lastPoll, loopVars, bridgeVars, toolVars>>

None == [kind |-> "none"]
Garbage == [kind |-> "garbage"]

(***************************************************************************)
(* send_message: the file name and the payload.                            *)
(***************************************************************************)
MsgFileName(recipient, sender, msg_id) == recipient \o sender \o <<msg_id>>

PayloadSwapped(sender, recipient, msg_type, content, msg_id, uid) ==
  [kind |-> "msg", id |-> msg_id, from |-> recipient, to |-> sender,
   type |-> msg_type, content |-> content, timestamp |-> msg_id, uid |-> uid]

\* uid is a history tag naming the call that wrote the payload; no code reads it.
Payload(sender, recipient, msg_type, content, msg_id, uid) ==
  [kind |-> "msg", id |-> msg_id, from |-> sender, to |-> recipient,
   type |-> msg_type, content |-> content, timestamp |-> msg_id, uid |-> uid]

WriteFileAll(dir, name, body) ==
  [n \in (DOMAIN dir) \cup {name} |-> body]

\* open(msg_file, "w"); json.dump(payload): creates or overwrites the file.
WriteFile(dir, name, body) ==
  [n \in (DOMAIN dir) \cup {name} |-> IF n = name THEN body ELSE dir[n]]

UnlinkKeeps(dir, name) == dir

\* f.unlink()
Unlink(dir, name) == [n \in (DOMAIN dir) \ {name} |-> dir[n]]

(***************************************************************************)
(* mailbox.glob(f"{hostname}_*.json"): the name starts with the hostname   *)
(* followed by "_".                                                        *)
(***************************************************************************)
GlobMatch(hostname, name) ==
  /\ Len(name) > Len(hostname)
  /\ SubSeq(name, 1, Len(hostname)) = hostname

Globbed(dir, hostname) == {n \in DOMAIN dir : GlobMatch(hostname, n)}

\* json.load succeeds on a complete payload and raises on a partial write.
Parses(body) == body.kind # "garbage"

\* The enumeration orders glob may produce over a set of names.
Orders(S) == {o \in [1..Cardinality(S) -> S] : \A i, j \in 1..Cardinality(S) : o[i] = o[j] => i = j}

RECURSIVE ListenFromAbort(_, _, _)
ListenFromAbort(dir, order, i) ==
  IF i > Len(order) THEN <<<<>>, dir>>
  ELSE LET f == order[i]
       IN IF Parses(dir[f])
          THEN LET rest == ListenFromAbort(Unlink(dir, f), order, i + 1)
               IN <<<<dir[f]>> \o rest[1], rest[2]>>
          ELSE <<<<>>, dir>>

RECURSIVE ListenFrom(_, _, _)
\* The for loop of listen_for_messages from position i of the enumeration:
\* <<messages, mailbox>> after the remaining files.
ListenFrom(dir, order, i) ==
  IF i > Len(order) THEN <<<<>>, dir>>
  ELSE LET f == order[i]
       IN IF Parses(dir[f])
          THEN LET rest == ListenFrom(Unlink(dir, f), order, i + 1)
               IN <<<<dir[f]>> \o rest[1], rest[2]>>
          ELSE ListenFrom(dir, order, i + 1)

(***************************************************************************)
(* Initial state: empty mailbox directory.                                 *)
(***************************************************************************)
MailInit ==
  /\ clock = 0
  /\ mailbox = <<>>
  /\ nsent = 0
  /\ delivered = [u \in 1..MaxSends |-> 0]
  /\ lastOp = None

ElectInit ==
  /\ now = 0
  /\ presence = <<>>
  /\ inbox = <<>>
  /\ lastPoll = None

LoopHosts == {HostB}

\* The hosts that may run an Agent Loop at all.
ReplyHosts == {HostA, HostB}

LoopInit ==
  /\ loop = [h \in ReplyHosts |-> [pc |-> "idle", version |-> "scripts", queue |-> <<>>]]
  /\ outbox = <<>>
  /\ cycle = [h \in ReplyHosts |-> [drained |-> <<>>, replies |-> <<>>, removed |-> TRUE]]

\* Start attempts of the launcher on one host; attempt p runs as process p.
MaxProcs == 2
Procs == 1..MaxProcs

\* run_collaboration before it is entered: t_process = None, no child yet.
\* exitAt, clean and lastDelay record when the Agent Loop child last exited,
\* whether the supervision loop has run without an exception since just before
\* that exit, and how long after the exit the replacement was spawned.
SupOff ==
  [pc |-> "off", wake |-> 0, process |-> "none", t_process |-> "none",
   orphans |-> 0, exitAt |-> -1, clean |-> TRUE, lastDelay |-> -1]

SupInit ==
  /\ launcher = [p \in Procs |-> "idle"]
  /\ pidFile = 0
  /\ sup = [p \in Procs |-> SupOff]
  /\ config = FALSE
  /\ raises = 0

BridgeInit ==
  /\ bridge = "outbox"
  /\ staged = <<>>
  /\ endpoint = [placed |-> {}, accepted |-> {}, failures |-> 0]

\* Updates the endpoint may hold over a run.
MaxUpdates == 2

\* The hosts that run a Channel Bridge: Quasar (Windows) and wizardpanda (Linux).
BridgeHosts == {<<"Quasar">>, <<"wizardpanda">>}

InboundInit ==
  /\ server = [updates |-> <<>>, confirmed |-> 0]
  /\ cursor = [h \in BridgeHosts |-> [mem |-> 0, file |-> 0]]
  /\ pollLog = [last |-> [kind |-> "none"],
                routed |-> [h \in BridgeHosts |-> [u \in 1..MaxUpdates |-> 0]]]

CliInit == lastRead = None

IoInit == writable = TRUE /\ platform = "posix"

\* Commits one side may hold that the other side lacks.
MaxCommits == 2

\* A fresh pair of clones.  `ahead` counts the commits of the local master
\* that the peer's master lacks and `behind` those of the peer's master that
\* the local one lacks; `dirty` says that the working tree differs from HEAD,
\* `links` that every project has its mcp-global-rules link, `rebase` that a
\* rebase is stopped on a conflict, `loose` counts the commits made on the
\* detached HEAD of a stopped rebase, `clash` says that the two sides changed
\* the same lines, `reachable` that the peer answers.
SyncInit ==
  /\ repo = [links |-> TRUE, dirty |-> FALSE, ahead |-> 0, behind |-> 0,
             rebase |-> FALSE, loose |-> 0, clash |-> FALSE, reachable |-> TRUE]
  /\ syncLog = [trace |-> <<>>, before |-> None, again |-> FALSE, quiet |-> FALSE,
                turn |-> 0]

\* The processes of one host that call listen_for_messages: the Agent Loop
\* and a CLI `comms listen`.
Receivers == {"loop", "cli"}

RecvIdle == [pc |-> "idle", todo |-> <<>>, messages |-> <<>>]

RecvInit ==
  /\ recv = [r \in Receivers |-> RecvIdle]
  /\ crashed = {}

\* NSyncHandler.__init__: self.debounce, in seconds.
debounce == 2

\* poll_remote: time.sleep(30)
POLL_REMOTE_SLEEP == 30

\* The clock of the watcher when start_watch runs: time.time() is far beyond
\* the debounce interval.
WatchEpoch == debounce + 1

ThreadIdle == [pc |-> "idle", now |-> 0]

\* Before start_watch: no handler, no observer, no poll thread.
WatchInit ==
  watch = [up |-> FALSE, t |-> WatchEpoch, last_sync |-> 0, queue |-> <<>>, nev |-> 0,
           ev |-> ThreadIdle, poll |-> [pc |-> "off", wake |-> 0],
           unsynced |-> FALSE]

Init ==
  /\ MailInit /\ ElectInit /\ LoopInit /\ SupInit /\ BridgeInit /\ InboundInit
  /\ CliInit /\ SyncInit /\ IoInit /\ RecvInit /\ WatchInit

(***************************************************************************)
(* NSync: one sync() cycle over the git clone of this host and its peer.   *)
(***************************************************************************)

\* ensure_rules_links: a project without the link (or with a real directory
\* in its place) gets the link, which is a change of the working tree.
EnsureRulesLinks(r) ==
  IF r.links THEN r ELSE [r EXCEPT !.links = TRUE, !.dirty = TRUE]

\* git add -A; git commit -m "nsync: auto-sync".  Exit status 1 when there is
\* nothing to commit; while a rebase is stopped the commit lands on the
\* detached HEAD.
GitCommit(r) ==
  IF ~r.dirty
  THEN [repo |-> r, rc |-> 1, n |-> 0]
  ELSE IF r.rebase
  THEN [repo |-> [r EXCEPT !.dirty = FALSE, !.loose = @ + 1], rc |-> 0, n |-> 1]
  ELSE [repo |-> [r EXCEPT !.dirty = FALSE, !.ahead = @ + 1], rc |-> 0, n |-> 1]

\* git pull --rebase <peer> master.
GitPull(r) ==
  IF ~r.reachable \/ r.rebase
  THEN [repo |-> r, rc |-> 128, n |-> 0]
  ELSE IF r.behind > 0 /\ r.ahead > 0 /\ r.clash
  THEN [repo |-> [r EXCEPT !.rebase = TRUE, !.dirty = TRUE], rc |-> 1, n |-> r.behind]
  ELSE [repo |-> [r EXCEPT !.behind = 0, !.clash = FALSE], rc |-> 0, n |-> r.behind]

\* git push <peer> master: refused unless the peer's master is an ancestor.
GitPush(r) ==
  IF ~r.reachable
  THEN [repo |-> r, rc |-> 128, n |-> 0]
  ELSE IF r.behind > 0
  THEN [repo |-> r, rc |-> 1, n |-> 0]
  ELSE [repo |-> [r EXCEPT !.ahead = 0], rc |-> 0, n |-> r.ahead]

\* NSyncHandler.sync: the four steps run one after the other; no exit status
\* is looked at (subprocess.run without check=True).
SyncCycle(r) ==
  LET l == EnsureRulesLinks(r)
      c == GitCommit(l)
      p == GitPull(c.repo)
      q == GitPush(p.repo)
  IN [repo |-> q.repo,
      trace |-> <<[cmd |-> "links", rc |-> 0, n |-> IF r.links THEN 0 ELSE 1],
                  [cmd |-> "commit", rc |-> c.rc, n |-> c.n],
                  [cmd |-> "pull", rc |-> p.rc, n |-> p.n],
                  [cmd |-> "push", rc |-> q.rc, n |-> q.n]>>]

\* Both counters of a clone stay within the bound.
InBounds(r) == r.ahead <= MaxCommits /\ r.loose <= MaxCommits

\* One run of sync() on the clone r; fresh says that the caller changed the
\* working tree just before, turn tells one run from the next.
RunSync(r, fresh) ==
  LET out == SyncCycle(r)
  IN /\ InBounds(out.repo)
     /\ repo' = out.repo
     /\ syncLog' = [trace |-> out.trace, before |-> r,
                    again |-> syncLog.quiet /\ ~fresh, quiet |-> TRUE,
                    turn |-> 1 - syncLog.turn]

\* The millisecond clock advances.
Tick ==
  /\ clock < MaxClock
  /\ clock' = clock + 1
  /\ UNCHANGED <<mailbox, nsent, delivered, lastOp, notMail>>

\* The mailbox after send_message(recipient, msg_type, content) on host sender at
\* millisecond msg_id.
Sent(dir, sender, recipient, msg_type, content, msg_id, uid) ==
  WriteFile(dir, MsgFileName(recipient, sender, msg_id),
            Payload(sender, recipient, msg_type, content, msg_id, uid))

\* send_message(recipient, msg_type, content) called on host sender.
SendMessage(sender, recipient, msg_type, content) ==
  /\ nsent < MaxSends
  /\ writable
  /\ LET msg_id == clock
     IN /\ mailbox' = Sent(mailbox, sender, recipient, msg_type, content, msg_id, nsent + 1)
        /\ lastOp' = [kind |-> "send", sender |-> sender, recipient |-> recipient,
                      type |-> msg_type, content |-> content, id |-> msg_id,
                      uid |-> nsent + 1,
                      alone |-> \A n \in Globbed(mailbox, recipient) : ~Parses(mailbox[n])]
  /\ nsent' = nsent + 1
  /\ RunSync([repo EXCEPT !.dirty = TRUE], TRUE)
  /\ UNCHANGED <<clock, delivered, electVars, loopVars, procRest>>

\* A partial write (a file replicated while it is being written) shows up in
\* the mailbox under a message name.
PartialWrite(sender, recipient) ==
  /\ MsgFileName(recipient, sender, clock) \notin DOMAIN mailbox
  /\ \A n \in DOMAIN mailbox : Parses(mailbox[n])
  /\ mailbox' = WriteFile(mailbox, MsgFileName(recipient, sender, clock), Garbage)
  /\ UNCHANGED <<clock, nsent, delivered, lastOp, notMail>>

\* listen_for_messages() called on host hostname.
ListenForMessages(hostname) ==
  \E order \in Orders(Globbed(mailbox, hostname)) :
    LET res == ListenFrom(mailbox, order, 1)
        messages == res[1]
    IN /\ mailbox' = res[2]
       /\ delivered' = [u \in 1..MaxSends |->
                          delivered[u] + Cardinality({i \in 1..Len(messages) : messages[i].uid = u})]
       /\ lastOp' = [kind |-> "listen", host |-> hostname, ret |-> messages,
                     prev |-> IF lastOp.kind = "send" /\ lastOp.recipient = hostname
                              THEN lastOp
                              ELSE IF lastOp.kind = "listen" /\ lastOp.host = hostname
                              THEN [kind |-> "listen", trip |-> lastOp.prev.kind = "send"]
                              ELSE None]
       /\ UNCHANGED <<clock, nsent, notMail>>

MailNext ==
  \/ Tick
  \/ \E s \in Senders, r \in Recipients, m \in Sendable :
       SendMessage(s, r, m[1], [text |-> m[2]])
  \/ \E r \in Recipients : PartialWrite(HostA, r)
  \/ \E h \in Hosts : ListenForMessages(h)

SpecMailbox == Init /\ [][MailNext]_vars

(***************************************************************************)
(* C1. Mailbox round trip: a listen_for_messages() on the recipient that   *)
(* directly follows send_message(recipient, type, content) returns the     *)
(* message of that call exactly once, with from = the sender, to = the     *)
(* recipient and the content and type that were sent (and nothing else     *)
(* when no other message was waiting); a listen that directly follows a    *)
(* listen of the same host returns no message.                             *)
(***************************************************************************)
C1_RoundTrip ==
  lastOp.kind = "listen" =>
    /\ lastOp.prev.kind = "send" =>
          LET call == lastOp.prev
              ret == lastOp.ret
              hits == {i \in 1..Len(ret) : ret[i].uid = call.uid}
          IN /\ Cardinality(hits) = 1
             /\ \A i \in hits :
                  /\ ret[i].from = call.sender
                  /\ ret[i].to = call.recipient
                  /\ ret[i].type = call.type
                  /\ ret[i].content = call.content
                  /\ ret[i].id = call.id
             /\ Cardinality({i \in 1..Len(ret) :
                   /\ ret[i].from = call.sender
                   /\ ret[i].to = call.recipient
                   /\ ret[i].id = call.id}) = 1
             /\ call.alone => Len(ret) = 1
    /\ lastOp.prev.kind = "listen" => lastOp.ret = <<>>

\* A second listen on B, after B's first listen returned the "x" sent by A.
C1_Witness ==
  /\ lastOp.kind = "listen"
  /\ lastOp.host = HostB
  /\ lastOp.prev.kind = "listen"
  /\ lastOp.prev.trip
  /\ lastOp.ret = <<>>
  /\ delivered[1] = 1

(***************************************************************************)
(* C2. At-most-once delivery: no send_message call has its message         *)
(* returned by more than one listen_for_messages call, and a message that  *)
(* a call returned is no longer a file of the mailbox.                     *)
(***************************************************************************)
C2_AtMostOnce ==
  /\ \A u \in 1..MaxSends : delivered[u] <= 1
  /\ \A n \in DOMAIN mailbox :
       Parses(mailbox[n]) => delivered[mailbox[n].uid] = 0

\* Every message of the run was returned once and a later call returned nothing.
C2_Witness ==
  /\ nsent = MaxSends
  /\ \A u \in 1..MaxSends : delivered[u] = 1
  /\ lastOp.kind = "listen"
  /\ lastOp.ret = <<>>

(***************************************************************************)
(* Election for the shared channel slot (listen_for_telegram_messages).    *)
(***************************************************************************)
MaxNow == 180
MaxItems == 1

CLAIM_DELAY == 60
PEER_TIMEOUT == 120

\* age < 60: the record is shown as [ACTIVE] (show_status, ping).
ACTIVE_AGE == 60

\* The steps by which the model lets time pass between calls (seconds).
Steps == {30, 60}

Antigravity == <<"Antigravity">>
Quasar == <<"Quasar">>
Wizardpanda == <<"wizardpanda">>

\* The identities that poll the channel inbox.
Pollers == {Antigravity, Quasar, Wizardpanda}

\* str.lower() on the names of the model.
LowerPart(p) ==
  CASE p = "Antigravity" -> "antigravity"
    [] p = "Quasar" -> "quasar"
    [] p = "To" -> "to"
    [] p = "To bob" -> "to bob"
    [] OTHER -> p

Lower(name) == [i \in DOMAIN name |-> LowerPart(name[i])]

\* The inbox glob of the slot: inbox.glob("Antigravity_*.json").
SlotName == <<"Antigravity">>

PresenceRecordOfQuasar(hostname, status, task, t) ==
  [kind |-> "presence", hostname |-> <<"Quasar">>, timestamp |-> t,
   status |-> status, current_task |-> task]

\* AgentPresence.update: the record written to {hostname}.json.
PresenceRecord(hostname, status, task, t) ==
  [kind |-> "presence", hostname |-> hostname, timestamp |-> t,
   status |-> status, current_task |-> task]

GetRemoteStatusAll(hostname) ==
  [h \in {f \in DOMAIN presence : Parses(presence[f])} |-> presence[h]]

\* AgentPresence.get_remote_status: every parseable record but the caller's own.
GetRemoteStatus(hostname) ==
  [h \in {f \in DOMAIN presence : f # hostname /\ Parses(presence[f])} |-> presence[h]]

QuasarActiveAnyAge(remotes, t) ==
  \E h \in DOMAIN remotes : Lower(h) = <<"quasar">>

\* for h, d in remotes.items(): h.lower() == "quasar" and time.time() - d.get('timestamp', 0) < 120
QuasarActive(remotes, t) ==
  \E h \in DOMAIN remotes :
    Lower(h) = <<"quasar">> /\ t - remotes[h].timestamp < PEER_TIMEOUT

IsPrimaryAlways(hostname, t) == TRUE

\* is_primary of the fallback branch.
IsPrimary(hostname, t) ==
  IF Lower(hostname) = <<"quasar">>
  THEN TRUE
  ELSE ~QuasarActive(GetRemoteStatus(hostname), t)

OldEnoughInclusive(age) == age >= CLAIM_DELAY

\* if age > 60
OldEnough(age) == age > CLAIM_DELAY

\* The fallback branch for one slot file: is it read and unlinked?
ClaimsSlotFile(hostname, dir, f, t) ==
  /\ OldEnough(t - dir[f].mtime)
  /\ IsPrimary(hostname, t)
  /\ Parses(dir[f].body)

RECURSIVE DrainFrom(_, _, _)
\* Priority 1: the files addressed to the caller, parsed files appended and unlinked.
DrainFrom(dir, order, i) ==
  IF i > Len(order) THEN <<<<>>, dir>>
  ELSE LET f == order[i]
       IN IF Parses(dir[f].body)
          THEN LET rest == DrainFrom(Unlink(dir, f), order, i + 1)
               IN <<<<dir[f].body>> \o rest[1], rest[2]>>
          ELSE DrainFrom(dir, order, i + 1)

RECURSIVE FallbackFrom(_, _, _, _, _)
\* Priority 2: the slot files, in glob order.
FallbackFrom(hostname, dir, order, i, t) ==
  IF i > Len(order) THEN <<<<>>, dir>>
  ELSE LET f == order[i]
       IN IF ClaimsSlotFile(hostname, dir, f, t)
          THEN LET rest == FallbackFrom(hostname, Unlink(dir, f), order, i + 1, t)
               IN <<<<dir[f].body>> \o rest[1], rest[2]>>
          ELSE FallbackFrom(hostname, dir, order, i + 1, t)

\* Age of Quasar's presence record as a reader sees it; -1 when there is no
\* readable record.
PrimaryAge ==
  IF Quasar \in DOMAIN presence /\ Parses(presence[Quasar])
  THEN now - presence[Quasar].timestamp
  ELSE -1

\* Time passes.
Advance ==
  \E d \in Steps :
    /\ now + d <= MaxNow
    /\ now' = now + d
    /\ UNCHANGED <<presence, inbox, lastPoll, notElect>>

\* AgentPresence.update(status, task) on host hostname.
Heartbeat(hostname, status, task) ==
  /\ writable
  /\ presence' = WriteFile(presence, hostname, PresenceRecord(hostname, status, task, now))
  /\ RunSync([repo EXCEPT !.dirty = TRUE], TRUE)
  /\ UNCHANGED <<now, inbox, lastPoll, notPresence>>

\* A presence file seen half-written (replicated during the write).
PresencePartial(hostname) ==
  /\ hostname \in DOMAIN presence
  /\ Parses(presence[hostname])
  /\ presence' = WriteFile(presence, hostname, Garbage)
  /\ UNCHANGED <<now, inbox, lastPoll, notElect>>

\* The bridge writes an item for target into the inbox
\* (handle_instruction: {target_host}_{msg_id}.json).
InboxWrite(target, text) ==
  /\ Cardinality(DOMAIN inbox) < MaxItems
  /\ inbox' = WriteFile(inbox, target \o <<now * 1000>>,
                        [body |-> [kind |-> "item", text |-> text, timestamp |-> now],
                         mtime |-> now])
  /\ UNCHANGED <<now, presence, lastPoll, notElect>>

\* An inbox file seen half-written.
InboxPartial(target) ==
  /\ Cardinality(DOMAIN inbox) < MaxItems
  /\ target \o <<now * 1000>> \notin DOMAIN inbox
  /\ inbox' = WriteFile(inbox, target \o <<now * 1000>>, [body |-> Garbage, mtime |-> now])
  /\ UNCHANGED <<now, presence, lastPoll, notElect>>

\* listen_for_telegram_messages() on host hostname (AGENT_IDENTITY or the OS name).
ListenForTelegramMessages(hostname) ==
  \E o1 \in Orders(Globbed(inbox, hostname)) :
    LET own == DrainFrom(inbox, o1, 1)
    IN IF Lower(hostname) = <<"antigravity">>
       THEN /\ inbox' = own[2]
            /\ lastPoll' = [kind |-> "poll", host |-> hostname, own |-> Len(own[1]),
                            decisions |-> {}]
            /\ UNCHANGED <<now, presence, notElect>>
       ELSE \E o2 \in Orders(Globbed(own[2], SlotName)) :
              LET fb == FallbackFrom(hostname, own[2], o2, 1, now)
              IN /\ inbox' = fb[2]
                 /\ lastPoll' =
                      [kind |-> "poll", host |-> hostname, own |-> Len(own[1]),
                       decisions |->
                         {[item |-> f,
                           itemAge |-> now - inbox[f].mtime,
                           parses |-> Parses(inbox[f].body),
                           primaryAge |-> PrimaryAge,
                           claimed |-> f \notin DOMAIN fb[2],
                           returned |-> \E i \in 1..Len(fb[1]) : fb[1][i] = inbox[f].body]
                          : f \in Globbed(own[2], SlotName)}]
                 /\ UNCHANGED <<now, presence, notElect>>

ElectNext ==
  \/ Advance
  \/ Heartbeat(Quasar, "active", "listening for team tasks")
  \/ PresencePartial(Quasar)
  \/ \E target \in {SlotName, Wizardpanda} : InboxWrite(target, "hi")
  \/ InboxPartial(SlotName)
  \/ \E h \in Pollers : ListenForTelegramMessages(h)

SpecElection == Init /\ [][ElectNext]_vars

\* The decisions of the last poll, when it was made by host h.
DecisionsOf(h) ==
  IF lastPoll.kind = "poll" /\ lastPoll.host = h THEN lastPoll.decisions ELSE {}

PrimaryShownActive(d) == d.primaryAge >= 0 /\ d.primaryAge < ACTIVE_AGE

(***************************************************************************)
(* C3 as stated. Election, primary active: whenever the primary (Quasar)   *)
(* has a presence record of age < 60s, the decision on a slot item is true *)
(* on the primary and false on the fallback (wizardpanda), at every item   *)
(* age.                                                                    *)
(***************************************************************************)
C3_PrimaryNeverDefers ==
  /\ \A d \in DecisionsOf(Quasar) : PrimaryShownActive(d) /\ d.parses => d.claimed
  /\ \A d \in DecisionsOf(Wizardpanda) : PrimaryShownActive(d) /\ d.parses => ~d.claimed

(***************************************************************************)
(* C3 as amended. Whenever Quasar has a presence record of age < 60s,      *)
(* wizardpanda claims no slot item at any item age, and Quasar claims a    *)
(* slot item exactly when the item is older than the 60s claim delay       *)
(* (younger items are left to the slot owner Antigravity).                 *)
(***************************************************************************)
C3_PrimaryActive ==
  /\ \A d \in DecisionsOf(Quasar) :
       PrimaryShownActive(d) /\ d.parses => (d.claimed <=> d.itemAge > 60)
  /\ \A d \in DecisionsOf(Wizardpanda) : PrimaryShownActive(d) => ~d.claimed

\* With Quasar's record fresh, wizardpanda left an old slot item alone.
C3_Witness ==
  \E d \in DecisionsOf(Wizardpanda) :
    PrimaryShownActive(d) /\ d.parses /\ d.itemAge > 60 /\ ~d.claimed

(***************************************************************************)
(* C4. Election, primary stale: when Quasar's presence record is older     *)
(* than 120s, or there is no readable record, and a slot item is older     *)
(* than 60s, the poll on wizardpanda returns the item and deletes its file.*)
(***************************************************************************)
C4_PrimaryStale ==
  \A d \in DecisionsOf(Wizardpanda) :
    d.parses /\ d.itemAge > 60 /\ (d.primaryAge = -1 \/ d.primaryAge > 120)
      => d.claimed /\ d.returned

\* wizardpanda took an old slot item while Quasar's record was older than 120s.
C4_Witness ==
  \E d \in DecisionsOf(Wizardpanda) :
    d.parses /\ d.itemAge > 60 /\ d.primaryAge > 120 /\ d.claimed /\ d.returned

MaxTasks == 1

\* needle in hay, for texts kept as word sequences.
ContainsText(hay, needle) ==
  \E i \in 0..(Len(hay) - Len(needle)) : SubSeq(hay, i + 1, i + Len(needle)) = needle

\* Output of an external command (mcp comms status, mcp nsync run): not
\* determined by the task text.
Stdout == <<"(stdout)">>

\* handle_telegram_instruction(text): the strings it can return.
HandleTelegramInstruction(identity, text) ==
  IF Lower(identity) = <<"antigravity">>
  THEN {<<"(antigravity response)">>,
        <<"[ERROR] No response from Antigravity">>,
        <<"Antigravity automation module not found.">>,
        <<"Error routing to Antigravity">>}
  ELSE IF text = <<>>
  THEN {<<"Empty command">>}
  ELSE IF Lower(text) = <<"status">>
  THEN {Stdout, <<"Error executing task">>}
  ELSE IF LowerPart(text[1]) = "run" /\ Len(text) >= 2
  THEN {Stdout, <<"Error executing task">>}
  ELSE {<<"Received:">> \o text \o <<". (Smart execution for this command pending development)">>}

\* The reply of the loop in agent_comms.py at the repository root.
LegacyAck(text) == <<"Task received and processing:">> \o text

\* m['from'], m['type'], m['content'] raise KeyError on a message without the key.
HandlerRaises(m) ==
  \/ "from" \notin DOMAIN m
  \/ "type" \notin DOMAIN m
  \/ m.type \in {"task", "instruction"} /\ "content" \notin DOMAIN m

\* m['content'].get('text', '')
TaskText(m) == IF "text" \in DOMAIN m.content THEN m.content.text ELSE <<>>

\* A parseable message file that was not written by send_message: no "type".
Malformed(sender, recipient, msg_id) ==
  [kind |-> "msg", id |-> msg_id, from |-> sender, to |-> recipient,
   content |-> [text |-> TextPing], timestamp |-> msg_id, uid |-> 0]

Running(h) == loop[h].pc \in {"poll", "handle", "thandle"}

\* A file that some other writer put into the mailbox.
ForeignWrite(sender, recipient) ==
  /\ MsgFileName(recipient, sender, clock) \notin DOMAIN mailbox
  /\ \A n \in DOMAIN mailbox : "type" \in DOMAIN mailbox[n]
  /\ mailbox' = WriteFile(mailbox, MsgFileName(recipient, sender, clock),
                          Malformed(sender, recipient, clock))
  /\ UNCHANGED <<clock, nsent, delivered, lastOp, notMail>>

\* autonomous_loop() is entered: the first heartbeat.
LoopStart(h, version) ==
  /\ loop[h].pc = "idle"
  /\ IF writable
     THEN /\ presence' = WriteFile(presence, h,
                                   PresenceRecord(h, "active", "autonomous collaboration", now))
          /\ loop' = [loop EXCEPT ![h] = [pc |-> "poll", version |-> version, queue |-> <<>>]]
          /\ RunSync([repo EXCEPT !.dirty = TRUE], TRUE)
     ELSE /\ loop' = [loop EXCEPT ![h] = [pc |-> "ioerror", version |-> version, queue |-> <<>>]]
          /\ UNCHANGED <<presence, syncVars>>
  /\ UNCHANGED <<mailVars, now, inbox, lastPoll, outbox, cycle, procRest>>

\* msgs = listen_for_messages()
LoopPoll(h) ==
  /\ loop[h].pc = "poll"
  /\ \E order \in Orders(Globbed(mailbox, h)) :
       LET res == ListenFrom(mailbox, order, 1)
       IN /\ mailbox' = res[2]
          /\ delivered' = [u \in 1..MaxSends |->
                             delivered[u] + Cardinality({i \in 1..Len(res[1]) : res[1][i].uid = u})]
          /\ loop' = [loop EXCEPT ![h].pc = "handle", ![h].queue = res[1]]
          /\ cycle' = [cycle EXCEPT ![h] =
                         [drained |-> res[1], replies |-> <<>>,
                          removed |-> \A i \in 1..Len(res[1]) :
                            MsgFileName(h, res[1][i].from, res[1][i].id) \notin DOMAIN res[2]]]
  /\ UNCHANGED <<clock, nsent, lastOp, electVars, outbox, procVars>>

NeedsReplyAlways(m) == TRUE

\* if m['type'] == "task" or m['type'] == "instruction"
NeedsReply(m) == m.type \in {"task", "instruction"}

\* One iteration of `for m in msgs`.
LoopHandle(h) ==
  /\ loop[h].pc = "handle"
  /\ loop[h].queue # <<>>
  /\ LET m == Head(loop[h].queue)
         idx == Len(cycle[h].drained) - Len(loop[h].queue) + 1
     IN IF HandlerRaises(m)
        THEN /\ loop' = [loop EXCEPT ![h].pc = "crashed", ![h].queue = <<>>]
             /\ UNCHANGED <<mailbox, cycle, syncVars>>
        ELSE IF NeedsReply(m)
        THEN \E result \in IF loop[h].version = "scripts"
                           THEN HandleTelegramInstruction(h, TaskText(m))
                           ELSE {LegacyAck(TaskText(m))} :
               LET type == IF loop[h].version = "scripts" THEN "result" ELSE "ack"
               IN IF writable
                  THEN /\ mailbox' = Sent(mailbox, h, m.from, type, [text |-> result], clock, 0)
                       /\ cycle' = [cycle EXCEPT ![h].replies =
                                      Append(@, [re |-> idx, to |-> m.from, type |-> type,
                                                 text |-> result])]
                       /\ loop' = [loop EXCEPT ![h].queue = Tail(@)]
                       /\ RunSync([repo EXCEPT !.dirty = TRUE], TRUE)
                  ELSE /\ loop' = [loop EXCEPT ![h].pc = "ioerror", ![h].queue = <<>>]
                       /\ UNCHANGED <<mailbox, cycle, syncVars>>
        ELSE /\ loop' = [loop EXCEPT ![h].queue = Tail(@)]
             /\ UNCHANGED <<mailbox, cycle, syncVars>>
  /\ UNCHANGED <<clock, nsent, delivered, lastOp, electVars, outbox, procRest>>

\* t_msgs = listen_for_telegram_messages()  (scripts/agent_comms.py only)
LoopPollTelegram(h) ==
  /\ loop[h].pc = "handle"
  /\ loop[h].queue = <<>>
  /\ loop[h].version = "scripts"
  /\ \E o1 \in Orders(Globbed(inbox, h)) :
       LET own == DrainFrom(inbox, o1, 1)
       IN IF Lower(h) = <<"antigravity">>
          THEN /\ inbox' = own[2]
               /\ loop' = [loop EXCEPT ![h].pc = "thandle", ![h].queue = own[1]]
          ELSE \E o2 \in Orders(Globbed(own[2], SlotName)) :
                 LET fb == FallbackFrom(h, own[2], o2, 1, now)
                 IN /\ inbox' = fb[2]
                    /\ loop' = [loop EXCEPT ![h].pc = "thandle", ![h].queue = own[1] \o fb[1]]
  /\ UNCHANGED <<mailVars, now, presence, lastPoll, outbox, cycle, procVars>>

\* notify_user_telegram(text) on host h: out_{msg_id}.json
Notified(dir, h, text, msg_id) ==
  WriteFile(dir, <<"out", msg_id>>,
            [kind |-> "out", text |-> text, from |-> h, timestamp |-> msg_id])

\* One iteration of `for tm in t_msgs`.
LoopHandleTelegram(h) ==
  /\ loop[h].pc = "thandle"
  /\ loop[h].queue # <<>>
  /\ LET tm == Head(loop[h].queue)
     IN IF "text" \notin DOMAIN tm
        THEN /\ loop' = [loop EXCEPT ![h].pc = "crashed", ![h].queue = <<>>]
             /\ UNCHANGED outbox
        ELSE IF ~writable
        THEN /\ loop' = [loop EXCEPT ![h].pc = "ioerror", ![h].queue = <<>>]
             /\ UNCHANGED outbox
        ELSE \E result \in HandleTelegramInstruction(h, tm.text) :
               /\ outbox' = Notified(outbox, h,
                                     <<"Result for">> \o tm.text \o <<":">> \o result, clock)
               /\ loop' = [loop EXCEPT ![h].queue = Tail(@)]
  /\ UNCHANGED <<mailVars, electVars, cycle, procVars>>

\* time.sleep(5); AgentPresence.update("active", "listening for team tasks")
LoopSleepBeat(h) ==
  /\ \/ loop[h].pc = "thandle" /\ loop[h].queue = <<>>
     \/ loop[h].pc = "handle" /\ loop[h].queue = <<>> /\ loop[h].version = "legacy"
  /\ IF writable
     THEN /\ presence' = WriteFile(presence, h,
                                   PresenceRecord(h, "active", "listening for team tasks", now))
          /\ loop' = [loop EXCEPT ![h].pc = "poll"]
          /\ RunSync([repo EXCEPT !.dirty = TRUE], TRUE)
     ELSE /\ loop' = [loop EXCEPT ![h].pc = "ioerror"]
          /\ UNCHANGED <<presence, syncVars>>
  /\ UNCHANGED <<mailVars, now, inbox, lastPoll, outbox, cycle, procRest>>

\* KeyboardInterrupt: "Collaboration mode stopped."
LoopInterrupt(h) ==
  /\ Running(h)
  /\ loop' = [loop EXCEPT ![h].pc = "stopped", ![h].queue = <<>>]
  /\ UNCHANGED <<mailVars, electVars, outbox, cycle, procVars>>

\* send_message called on another host, addressed to an Agent Loop host.
SendTask(sender, recipient, msg_type, content) ==
  /\ nsent < MaxTasks
  /\ SendMessage(sender, recipient, msg_type, content)

\* The (type, text) pairs sent to the Agent Loop host.
LoopSendable == {<<"task", TextPing>>, <<"task", TextStatus>>, <<"ack", TextPing>>}

LoopNext ==
  \/ Tick
  \/ \E m \in LoopSendable : SendTask(HostA, HostB, m[1], [text |-> m[2]])
  \/ ForeignWrite(HostA, HostB)
  \/ InboxWrite(HostB, TextPing)
  \/ \E h \in LoopHosts :
       \/ \E v \in {"scripts", "legacy"} : LoopStart(h, v)
       \/ LoopPoll(h)
       \/ LoopHandle(h)
       \/ LoopPollTelegram(h)
       \/ LoopHandleTelegram(h)
       \/ LoopSleepBeat(h)
       \/ LoopInterrupt(h)

SpecLoop == Init /\ [][LoopNext]_vars

\* The loop on h is through with the batch of its last poll.
BatchDone(h) ==
  \/ loop[h].pc = "thandle"
  \/ loop[h].pc = "handle" /\ loop[h].queue = <<>>
  \/ loop[h].pc = "crashed"

(***************************************************************************)
(* C6. End-to-end task acknowledgement: for every task message that        *)
(* send_message put into B's mailbox, B's Agent Loop on its next poll      *)
(* sends exactly one message of type ack to the sender, whose text         *)
(* contains the task's text, and the poll leaves no file of that message   *)
(* in B's mailbox.                                                         *)
(***************************************************************************)
C6_TaskAck ==
  \A h \in LoopHosts :
    BatchDone(h) =>
      \A i \in 1..Len(cycle[h].drained) :
        LET m == cycle[h].drained[i]
            mine == {j \in 1..Len(cycle[h].replies) : cycle[h].replies[j].re = i}
        IN m.uid > 0 /\ m.type = "task" =>
             /\ Cardinality(mine) = 1
             /\ \A j \in mine :
                  /\ cycle[h].replies[j].to = m.from
                  /\ cycle[h].replies[j].type = "ack"
                  /\ ContainsText(cycle[h].replies[j].text, m.content.text)
             /\ cycle[h].removed

(***************************************************************************)
(* C9. The Agent Loop survives handler errors: whatever messages it        *)
(* drains, the loop is left only by an interrupt.                          *)
(***************************************************************************)
C9_LoopSurvives == \A h \in LoopHosts : loop[h].pc # "crashed"

(***************************************************************************)
(* Supervisor (scripts/agent_launcher.py).  Time is `now`, in seconds; a   *)
(* sleeping supervisor wakes when `now` reaches its wake time, and time    *)
(* does not pass while a supervisor is due: the statements between two     *)
(* sleeps take no time.                                                    *)
(***************************************************************************)
MaxSupTime == 15
MaxRaises == 1

POLL_INTERVAL == 5
RESTART_DELAY == 5
BACKOFF == 10

\* os.kill(pid, 0) succeeds: a process with that pid exists.
Alive(pid) == launcher[pid] \in {"started", "checked", "run"}

\* The liveness probe of is_already_running: os.kill(pid, 0) raises when no
\* such process exists; on nt, `tasklist /FI "PID eq <pid>"` run with check=True
\* exits with 0 whether or not a task matches, so it never raises.
ProbeFinds(pid) == platform = "nt" \/ Alive(pid)

\* python agent_launcher.py
Launch(p) ==
  /\ launcher[p] = "idle"
  /\ launcher' = [launcher EXCEPT ![p] = "started"]
  /\ UNCHANGED <<pidFile, sup, config, raises, now, notSup>>

\* A start attempt made while no other launcher process exists.
LaunchAlone(p) ==
  /\ \A q \in Procs : ~Alive(q)
  /\ Launch(p)

\* if is_already_running(): print("Already running. Exiting."); sys.exit(0)
IsAlreadyRunning(p) ==
  /\ launcher[p] = "started"
  /\ IF pidFile # 0
     THEN IF ProbeFinds(pidFile)
          THEN /\ launcher' = [launcher EXCEPT ![p] = "declined"]
               /\ UNCHANGED pidFile
          ELSE /\ pidFile' = 0
               /\ launcher' = [launcher EXCEPT ![p] = "checked"]
     ELSE /\ launcher' = [launcher EXCEPT ![p] = "checked"]
          /\ UNCHANGED pidFile
  /\ UNCHANGED <<sup, config, raises, now, notSup>>

\* write_pid(); run_collaboration() up to `while True`
WritePid(p) ==
  /\ launcher[p] = "checked"
  /\ pidFile' = p
  /\ launcher' = [launcher EXCEPT ![p] = "run"]
  /\ sup' = [sup EXCEPT ![p] = [SupOff EXCEPT !.pc = "top", !.wake = now]]
  /\ UNCHANGED <<config, raises, now, notSup>>

RaisedFatal(s, t) == [s EXCEPT !.pc = "dead", !.clean = FALSE]

\* except Exception: print(...); time.sleep(10)
Raised(s, t) == [s EXCEPT !.pc = "backoff", !.wake = t + BACKOFF, !.clean = FALSE]

RestartAtLate(t) == t + RESTART_DELAY + POLL_INTERVAL + 1

\* time.sleep(5) at the bottom of `while True`
RestartAt(t) == t + RESTART_DELAY

BridgeNeverStarted(s) == s.t_process = "none"

\* t_process is None or t_process.poll() is not None
BridgeDown(s) == s.t_process # "alive"

\* The top of `while True` after the sleep: start the bridge if configured and
\* down, then spawn the Agent Loop.  Either Popen may raise.
SupTop(p) ==
  /\ launcher[p] = "run"
  /\ sup[p].pc = "top"
  /\ sup[p].wake <= now
  /\ LET s == sup[p]
         b == IF config /\ BridgeDown(s) THEN [s EXCEPT !.t_process = "alive"] ELSE s
     IN \/ /\ config /\ BridgeDown(s)
           /\ raises < MaxRaises
           /\ raises' = raises + 1
           /\ sup' = [sup EXCEPT ![p] = Raised(s, now)]
        \/ /\ raises < MaxRaises
           /\ raises' = raises + 1
           /\ sup' = [sup EXCEPT ![p] = Raised(b, now)]
        \/ /\ sup' = [sup EXCEPT ![p] =
                        [b EXCEPT !.process = "alive",
                                  !.orphans = IF s.process = "alive" THEN @ + 1 ELSE @,
                                  !.lastDelay = IF s.process = "exited"
                                                THEN now - s.exitAt ELSE @,
                                  !.pc = "monitor",
                                  !.wake = now]]
           /\ UNCHANGED raises
  /\ UNCHANGED <<launcher, pidFile, config, now, notSup>>

\* One evaluation of `while process.poll() is None` and the body that follows.
SupMonitor(p) ==
  /\ launcher[p] = "run"
  /\ sup[p].pc = "monitor"
  /\ sup[p].wake <= now
  /\ LET s == sup[p]
         slept == [s EXCEPT !.wake = now + POLL_INTERVAL]
     IN IF s.process # "alive"
        THEN /\ sup' = [sup EXCEPT ![p] = [s EXCEPT !.pc = "top", !.wake = RestartAt(now)]]
             /\ UNCHANGED raises
        ELSE IF config
        THEN IF BridgeDown(s)
             THEN \/ /\ sup' = [sup EXCEPT ![p] = [slept EXCEPT !.t_process = "alive"]]
                     /\ UNCHANGED raises
                  \/ /\ raises < MaxRaises
                     /\ raises' = raises + 1
                     /\ sup' = [sup EXCEPT ![p] = Raised(s, now)]
             ELSE /\ sup' = [sup EXCEPT ![p] = slept]
                  /\ UNCHANGED raises
        ELSE /\ sup' = [sup EXCEPT ![p] =
                          IF s.t_process = "alive"
                          THEN [slept EXCEPT !.t_process = "none"]
                          ELSE slept]
             /\ UNCHANGED raises
  /\ UNCHANGED <<launcher, pidFile, config, now, notSup>>

\* The end of time.sleep(10) in the except clause; time.sleep(5) follows.
SupBackoffDone(p) ==
  /\ launcher[p] = "run"
  /\ sup[p].pc = "backoff"
  /\ sup[p].wake <= now
  /\ sup' = [sup EXCEPT ![p].pc = "top", ![p].wake = RestartAt(now)]
  /\ UNCHANGED <<launcher, pidFile, config, raises, now, notSup>>

\* One second passes; no running supervisor is due.
Elapse ==
  /\ now < MaxSupTime
  /\ \A p \in Procs : launcher[p] = "run" => sup[p].wake > now
  /\ now' = now + 1
  /\ UNCHANGED <<supVars, notSup>>

\* The Agent Loop child of p exits: killed, crashed or interrupted.
AgentExit(p) ==
  /\ launcher[p] = "run"
  /\ sup[p].process = "alive"
  /\ sup' = [sup EXCEPT ![p].process = "exited",
                        ![p].exitAt = now,
                        ![p].clean = (sup[p].pc = "monitor"),
                        ![p].lastDelay = -1]
  /\ UNCHANGED <<launcher, pidFile, config, raises, now, notSup>>

\* The Channel Bridge child of p exits.
BridgeExit(p) ==
  /\ launcher[p] = "run"
  /\ sup[p].t_process = "alive"
  /\ sup' = [sup EXCEPT ![p].t_process = "exited"]
  /\ UNCHANGED <<launcher, pidFile, config, raises, now, notSup>>

\* telegram_config.json is created.
ConfigWrite ==
  /\ ~config
  /\ config' = TRUE
  /\ UNCHANGED <<launcher, pidFile, sup, raises, now, notSup>>

\* telegram_config.json is removed.
ConfigRemove ==
  /\ config
  /\ config' = FALSE
  /\ UNCHANGED <<launcher, pidFile, sup, raises, now, notSup>>

\* KeyboardInterrupt in run_collaboration: finally: PID_FILE.unlink(missing_ok=True)
Stop(p) ==
  /\ launcher[p] = "run"
  /\ launcher' = [launcher EXCEPT ![p] = "stopped"]
  /\ pidFile' = 0
  /\ sup' = [sup EXCEPT ![p] = SupOff]
  /\ UNCHANGED <<config, raises, now, notSup>>

\* SIGKILL of the supervisor: the finally clause does not run.
Kill(p) ==
  /\ launcher[p] = "run"
  /\ launcher' = [launcher EXCEPT ![p] = "killed"]
  /\ sup' = [sup EXCEPT ![p] = SupOff]
  /\ UNCHANGED <<pidFile, config, raises, now, notSup>>

\* One supervisor at a time, with its children and the passing of time.
SupNext ==
  \/ \E p \in Procs : LaunchAlone(p)
  \/ \E p \in Procs : IsAlreadyRunning(p)
  \/ \E p \in Procs : WritePid(p)
  \/ \E p \in Procs : SupTop(p)
  \/ \E p \in Procs : SupMonitor(p)
  \/ \E p \in Procs : SupBackoffDone(p)
  \/ Elapse
  \/ \E p \in Procs : AgentExit(p)
  \/ \E p \in Procs : BridgeExit(p)
  \/ ConfigWrite
  \/ ConfigRemove
  \/ \E p \in Procs : Stop(p)
  \/ \E p \in Procs : Kill(p)

SpecSupervisor == Init /\ [][SupNext]_vars

\* Start attempts in any interleaving.
LaunchNext ==
  \/ \E p \in Procs : Launch(p)
  \/ \E p \in Procs : IsAlreadyRunning(p)
  \/ \E p \in Procs : WritePid(p)
  \/ \E p \in Procs : SupTop(p)
  \/ \E p \in Procs : Stop(p)
  \/ \E p \in Procs : Kill(p)

SpecLaunch == Init /\ [][LaunchNext]_vars

\* The supervisors whose Agent Loop child has exited and is not yet replaced.
Pending(p) == launcher[p] = "run" /\ sup[p].process = "exited"

\* The supervisors that have replaced an exited Agent Loop child.
Respawned(p) == launcher[p] = "run" /\ sup[p].process = "alive" /\ sup[p].lastDelay >= 0

C8_Singleton ==
  /\ Cardinality({p \in Procs : launcher[p] = "run"}) <= 1
  /\ \A p \in Procs : launcher[p] = "declined" => sup[p].process = "none"

(***************************************************************************)
(* Outbound path of the Channel Bridge (scripts/telegram_bridge.py):       *)
(* notify_user_telegram queues a file in the outbox, check_outbox moves    *)
(* each outbox file to the buffer directory and posts it.  The endpoint    *)
(* fails at most MaxFailures times and accepts every request after that.   *)
(***************************************************************************)
MaxFailures == 2

\* The texts queued for the user, each queued once.
OutTexts == {TextPing, TextStatus}

\* notify_user_telegram(text) on an Agent Loop host.
NotifyUser(h, text) ==
  /\ text \notin endpoint.placed
  /\ outbox' = Notified(outbox, h, text, clock)
  /\ endpoint' = [endpoint EXCEPT !.placed = @ \cup {text}]
  /\ UNCHANGED <<mailVars, electVars, loop, cycle, supVars, toolVars, bridge, staged, inVars>>

\* The endpoint may still fail: an OSError of the rename counts as well.
MayFail(e) == e.failures < MaxFailures

Failed(e) == [e EXCEPT !.failures = @ + 1]

\* r.status_code == 200 for the text of the file.
Accepted(e, text) == [e EXCEPT !.accepted = @ \cup {text}]

\* os.remove(target)
Removed(st, f) == [st EXCEPT !.staged = Unlink(@, f)]

\* if target.exists(): os.remove(target); os.rename(str(f), str(target))
Moved(st, f) ==
  [st EXCEPT !.outbox = Unlink(@, f), !.staged = WriteFile(@, f, st.outbox[f])]

\* The body of `for f in outbox.glob("*.json")` for one file: the states
\* <<outbox, buffer directory, endpoint>> it may end in.
SendOne(st, f) ==
  LET e == st.endpoint
      text == st.outbox[f].text
      m == Moved(st, f)
      ok == {[Removed(m, f) EXCEPT !.endpoint = Accepted(e, text)]}
      locked == {[Removed(st, f) EXCEPT !.endpoint = Failed(e)]}
      other == {[m EXCEPT !.endpoint = Failed(e)]}
      retried == {[Removed(m, f) EXCEPT !.endpoint = Accepted(Failed(e), text)]}
      retryStatus == IF MayFail(Failed(e))
                     THEN {[Removed(m, f) EXCEPT !.endpoint = Failed(Failed(e))]}
                     ELSE {}
      retryRaises == IF MayFail(Failed(e))
                     THEN {[m EXCEPT !.endpoint = Failed(Failed(e))]}
                     ELSE {}
  IN IF MayFail(e)
     THEN ok \cup locked \cup other \cup retried \cup retryStatus \cup retryRaises
     ELSE ok

RECURSIVE OutboxFrom(_, _, _)
\* The for loop of check_outbox from position i of the enumeration.
OutboxFrom(st, order, i) ==
  IF i > Len(order) THEN {st}
  ELSE UNION {OutboxFrom(s2, order, i + 1) : s2 \in SendOne(st, order[i])}

\* check_outbox(config): one call, over the files the glob returned.
CheckOutbox ==
  /\ bridge = "outbox"
  /\ bridge' = "sleep"
  /\ \E order \in Orders(DOMAIN outbox) :
       \E st \in OutboxFrom([outbox |-> outbox, staged |-> staged, endpoint |-> endpoint],
                            order, 1) :
         /\ outbox' = st.outbox
         /\ staged' = st.staged
         /\ endpoint' = st.endpoint
  /\ UNCHANGED <<mailVars, electVars, loop, cycle, supVars, toolVars, inVars>>

\* time.sleep(2), then the next cycle of `while True`.  poll_telegram, which
\* opens the cycle, touches neither the outbox nor the buffer directory.
BridgeSleep ==
  /\ bridge = "sleep"
  /\ bridge' = "outbox"
  /\ UNCHANGED <<mailVars, electVars, loopVars, supVars, toolVars, staged, endpoint, inVars>>

OutboxNext ==
  \/ Tick
  \/ \E h \in LoopHosts, text \in OutTexts : NotifyUser(h, text)
  \/ CheckOutbox
  \/ BridgeSleep

\* The Channel Bridge keeps cycling: check_outbox is called again and again.
SpecOutbox ==
  Init /\ [][OutboxNext]_vars /\ WF_vars(CheckOutbox) /\ WF_vars(BridgeSleep)

(***************************************************************************)
(* C10: every text queued in the outbox is eventually accepted by the      *)
(* endpoint, given that the bridge keeps cycling and the endpoint          *)
(* eventually accepts; a file kept after a failed delivery is attempted    *)
(* again on a later cycle.                                                 *)
(***************************************************************************)
C10_AtLeastOnce ==
  \A text \in OutTexts : (text \in endpoint.placed) ~> (text \in endpoint.accepted)

(***************************************************************************)
(* Inbound path of the Channel Bridge (scripts/telegram_bridge.py):        *)
(* poll_telegram asks the endpoint for the updates after its cursor and    *)
(* hands the text of each update of the configured chat to                 *)
(* handle_instruction, which writes it to an inbox file.  A text is the    *)
(* sequence of its words; ":" is a word of its own, written without a      *)
(* space before it, so <<"to", "bob", ":", "status">> is "to bob: status". *)
(***************************************************************************)
ChatId == "1001"
Stranger == "2002"

BRIDGE_PEER_TIMEOUT == 120

TextPlain == <<"status">>
TextToBob == <<"to", "bob", ":", "status">>
TextToQuasar == <<"to", "Quasar", ":", "status">>
TextCapital == <<"To", "bob", ":", "status">>
TextSlotColon == <<"to", "antigravity", ":", "status">>
TextSlotBare == <<"to", "antigravity", "status">>
TextNoColon == <<"to", "bob", "status">>
TextSlash == <<"to", "a/b", ":", "status">>

InTexts ==
  {TextPlain, TextToBob, TextToQuasar, TextCapital, TextSlotColon, TextSlotBare,
   TextNoColon, TextSlash}

\* text.lower().startswith("to ")
StartsWithTo(text) == Len(text) >= 2 /\ LowerPart(text[1]) = "to" /\ text[2] # ":"

\* The position of the first ":" of the text, 0 when it has none.
ColonAt(text) ==
  IF \E i \in DOMAIN text : text[i] = ":"
  THEN CHOOSE i \in DOMAIN text : text[i] = ":" /\ \A j \in 1..(i - 1) : text[j] # ":"
  ELSE 0

\* text.split(":", 1)[1].strip()
AfterColon(text) == SubSeq(text, ColonAt(text) + 1, Len(text))

RECURSIVE DropTo(_)
\* parts[0].replace("to ", ""): every lower-case "to" that a space follows goes.
DropTo(ws) ==
  IF Len(ws) <= 1 THEN ws
  ELSE IF Head(ws) = "to" THEN DropTo(Tail(ws))
  ELSE <<Head(ws)>> \o DropTo(Tail(ws))

\* The words joined by single spaces, on the names of the model.
JoinWords(ws) ==
  CASE Len(ws) = 0 -> ""
    [] Len(ws) = 1 -> ws[1]
    [] ws = <<"To", "bob">> -> "To bob"

\* text.lower().startswith("to antigravity") or ...startswith("to assistant")
StartsWithSlot(text) ==
  /\ Len(text) >= 2
  /\ LowerPart(text[1]) = "to"
  /\ LowerPart(text[2]) \in {"antigravity", "assistant"}

\* The prefix block of handle_instruction: target_host and text after it.
PrefixRoute(hostname, text) ==
  IF StartsWithTo(text) /\ ColonAt(text) > 0
  THEN [target |-> <<LowerPart(JoinWords(DropTo(SubSeq(text, 1, ColonAt(text) - 1))))>>,
        text |-> AfterColon(text)]
  ELSE [target |-> Lower(hostname), text |-> text]

\* handle_instruction(text) on the bridge of hostname: the target whose name
\* starts the file name, and the text of the payload.
Route(hostname, text) ==
  LET first == PrefixRoute(hostname, text)
  IN IF StartsWithSlot(first.text)
     THEN [target |-> <<"Antigravity">>,
           text |-> IF ColonAt(first.text) > 0 THEN AfterColon(first.text) ELSE first.text]
     ELSE first

\* open(msg_file, "w") succeeds: the file name names no missing directory.
Writable(target) == \A i \in DOMAIN target : target[i] \notin {"a/b"}

\* msg_file = inbox / f"{target_host}_{msg_id}.json"; json.dump({"text", "timestamp"})
Written(dir, target, text, msg_id, t) ==
  WriteFile(dir, target \o <<msg_id>>,
            [body |-> [kind |-> "item", text |-> text, timestamp |-> t], mtime |-> t])

\* os.name == 'nt'
IsWindows(hostname) == Lower(hostname) = <<"quasar">>

\* 'window' in host.lower(), on the names of the model.
HasWindow(host) == \E i \in DOMAIN host : LowerPart(host[i]) \in {"windows"}

DefersToWindowOnly(hostname, t) ==
  /\ ~IsWindows(hostname)
  /\ LET remotes == GetRemoteStatus(hostname)
     IN \E host \in DOMAIN remotes :
          /\ HasWindow(host)
          /\ t - remotes[host].timestamp < BRIDGE_PEER_TIMEOUT

\* The early return of poll_telegram: a Linux host that has seen Quasar lately.
Defers(hostname, t) ==
  /\ ~IsWindows(hostname)
  /\ LET remotes == GetRemoteStatus(hostname)
     IN \E host \in DOMAIN remotes :
          /\ Lower(remotes[host].hostname) = <<"quasar">> \/ HasWindow(host)
          /\ t - remotes[host].timestamp < BRIDGE_PEER_TIMEOUT

\* getUpdates?offset={last_update + 1}
Offset(last_update) == last_update + 1

Max(a, b) == IF a >= b THEN a ELSE b

\* The ids the endpoint still holds from offset on.
PendingUpdates(srv, offset) ==
  {i \in 1..Len(srv.updates) : i >= offset /\ i > Max(srv.confirmed, offset - 1)}


RECURSIVE RouteFrom(_, _, _, _, _, _)
\* `for update in updates` from position i of the batch, the next file written
\* at millisecond msg_id: the possible [inbox, ids routed, files written,
\* raised?].  The clock
\* may or may not reach the next millisecond between two items.
RouteFrom(hostname, dir, batch, i, msg_id, t) ==
  IF i > Len(batch) THEN {[dir |-> dir, routed |-> <<>>, files |-> <<>>, raised |-> FALSE]}
  ELSE LET u == server.updates[batch[i]]
           r == Route(hostname, u.text)
       IN IF u.from # ChatId
          THEN RouteFrom(hostname, dir, batch, i + 1, msg_id, t)
          ELSE IF ~Writable(r.target)
          THEN {[dir |-> dir, routed |-> <<>>, files |-> <<>>, raised |-> TRUE]}
          ELSE UNION {{[rest EXCEPT !.routed = <<batch[i]>> \o @,
                                    !.files = <<r.target \o <<msg_id>>>> \o @] :
                         rest \in RouteFrom(hostname,
                                            Written(dir, r.target, r.text, msg_id, t),
                                            batch, i + 1, msg_id + d, t)}
                      : d \in {0, 1}}

\* The ids of the batch whose sender is the configured chat.
Matching(batch) ==
  SelectSeq(batch, LAMBDA id : server.updates[id].from = ChatId)

\* How often each update was routed, counted up to 2.
Counted(count, ids) ==
  [u \in DOMAIN count |->
     IF \E i \in DOMAIN ids : ids[i] = u
     THEN (IF count[u] < 2 THEN count[u] + 1 ELSE count[u])
     ELSE count[u]]

\* The user, or somebody else, sends a text to the bot.
UserSends(from_id, text) ==
  /\ Len(server.updates) < MaxUpdates
  /\ server' = [server EXCEPT !.updates = Append(@, [from |-> from_id, text |-> text])]
  /\ UNCHANGED <<mailVars, electVars, loopVars, supVars, toolVars, bridge, staged, endpoint,
                 cursor, pollLog>>

\* poll_telegram(config) on the bridge of hostname.
PollTelegram(hostname) ==
  LET offset == Offset(cursor[hostname].mem)
      before == cursor[hostname].file
      seen == [server EXCEPT !.confirmed = Max(@, offset - 1)]
      ids == PendingUpdates(server, offset)
      first == Max(server.confirmed, offset - 1) + 1
  IN \/ /\ Defers(hostname, now)
        /\ pollLog' = [pollLog EXCEPT !.last = [kind |-> "skip", host |-> hostname]]
        /\ UNCHANGED <<server, cursor, inbox>>
     \/ /\ ~Defers(hostname, now)
        /\ pollLog' = [pollLog EXCEPT !.last = [kind |-> "fail", host |-> hostname]]
        /\ UNCHANGED <<server, cursor, inbox>>
     \/ /\ ~Defers(hostname, now)
        /\ \E n \in 0..Cardinality(ids) :
             LET batch == [i \in 1..n |-> first + i - 1]
             IN \E r \in RouteFrom(hostname, inbox, batch, 1, now * 1000, now) :
                  /\ server' = seen
                  /\ inbox' = r.dir
                  /\ cursor' = IF r.raised \/ n = 0 THEN cursor
                               ELSE [cursor EXCEPT ![hostname] =
                                       [mem |-> batch[n], file |-> batch[n]]]
                  /\ pollLog' =
                       [last |-> [kind |-> IF r.raised THEN "raised" ELSE "ok",
                                  host |-> hostname, offset |-> offset,
                                  before |-> before, batch |-> batch,
                                  matching |-> Matching(batch), routed |-> r.routed,
                                  files |-> r.files],
                        routed |-> [pollLog.routed EXCEPT
                                      ![hostname] = Counted(@, r.routed)]]
  /\ UNCHANGED <<mailVars, now, presence, lastPoll, loopVars, supVars, toolVars, bridge, staged,
                 endpoint>>

\* The (sender, text) pairs of the polling model.
InboundSendable ==
  {<<ChatId, TextPlain>>, <<ChatId, TextToBob>>, <<ChatId, TextSlash>>,
   <<Stranger, TextPlain>>}

InboundNext ==
  \/ Heartbeat(Quasar, "active", "listening for team tasks")
  \/ \E m \in InboundSendable : UserSends(m[1], m[2])
  \/ \E h \in BridgeHosts : PollTelegram(h)

SpecInbound == Init /\ [][InboundNext]_vars

\* The polls that got an answer with status 200.
Answered(p) == p.kind \in {"ok", "raised"}

(***************************************************************************)
(* C11: a poll that the endpoint answers asks for the ids above the        *)
(* persisted cursor only, routes every update of its batch that comes from *)
(* the configured chat, and leaves the persisted cursor at the highest id  *)
(* of the batch; the cursor never decreases, and no update at or below the *)
(* persisted cursor is routed twice by one bridge.                         *)
(***************************************************************************)
C11_Cursor ==
  /\ Answered(pollLog.last) =>
       LET p == pollLog.last
       IN /\ p.offset = p.before + 1
          /\ \A i \in DOMAIN p.batch : p.batch[i] > p.before
          /\ p.routed = p.matching
          /\ cursor[p.host].file >= p.before
          /\ p.batch # <<>> => cursor[p.host].file = p.batch[Len(p.batch)]
  /\ \A h \in BridgeHosts : \A u \in 1..MaxUpdates :
       u <= cursor[h].file => pollLog.routed[h][u] <= 1

\* Polls fed with every text of the model, all from the configured chat.
RouteNext ==
  \/ \E text \in InTexts : UserSends(ChatId, text)
  \/ \E h \in BridgeHosts : PollTelegram(h)

SpecRoute == Init /\ [][RouteNext]_vars

\* The text has the form 'to T: body' with a one-word T.
Prefixed(text) == Len(text) >= 3 /\ LowerPart(text[1]) = "to" /\ text[3] = ":"

\* The target of an inbox file name, {target}_{msg_id}.json.
TargetOf(name) == SubSeq(name, 1, Len(name) - 1)

\* The files the last poll wrote that no later file of that poll replaced.
Kept(p) == {i \in DOMAIN p.files : \A j \in DOMAIN p.files : j > i => p.files[j] # p.files[i]}

(***************************************************************************)
(* C12: every update of the configured chat that a poll handles is written *)
(* to an inbox file; for 'to T: body' the file is one of target T and      *)
(* holds 'body'; for any other text it is one of the bridge host's own     *)
(* identity and holds the text unchanged.  Names are compared without      *)
(* regard to case.                                                         *)
(***************************************************************************)
C12_Routing ==
  Answered(pollLog.last) =>
    LET p == pollLog.last
    IN /\ p.routed = p.matching
       /\ \A i \in Kept(p) :
            LET text == server.updates[p.routed[i]].text
                f == p.files[i]
            IN /\ f \in DOMAIN inbox
               /\ IF Prefixed(text)
                  THEN /\ Lower(TargetOf(f)) = Lower(<<text[2]>>)
                       /\ inbox[f].body.text = SubSeq(text, 4, Len(text))
                  ELSE /\ Lower(TargetOf(f)) = Lower(p.host)
                       /\ inbox[f].body.text = text

(***************************************************************************)
(* The presence store and the `mcp comms` commands that read it.           *)
(***************************************************************************)
PresenceHosts == {Antigravity, Quasar, Wizardpanda}

\* Names a ping may be given: the hosts and one that never wrote a record.
PingTargets == PresenceHosts \cup {HostA}

\* The hosts on which the commands are run.
Callers == {Quasar}

notCli == <<mailVars, electVars, loopVars, supVars, bridgeVars, syncVars, ioVars, watchVars>>

\* A call of AgentPresence.get_remote_status() on host hostname.
RemoteStatuses(hostname) ==
  /\ lastRead' = [kind |-> "remotes", caller |-> hostname,
                  ret |-> GetRemoteStatus(hostname)]
  /\ UNCHANGED notCli

\* age < 60 of the ping command.
PingAlive(age) == age < ACTIVE_AGE

\* Exit status of `mcp comms ping target` run on host hostname.
PingExit(hostname, target) ==
  LET remotes == GetRemoteStatus(hostname)
  IN IF target \in DOMAIN remotes /\ PingAlive(now - remotes[target].timestamp)
     THEN 0
     ELSE 1

\* `mcp comms ping target` on host hostname.
Ping(hostname, target) ==
  /\ lastRead' = [kind |-> "ping", caller |-> hostname, target |-> target,
                  exit |-> PingExit(hostname, target),
                  seen |-> IF target \in DOMAIN presence /\ Parses(presence[target])
                           THEN now - presence[target].timestamp
                           ELSE -1]
  /\ UNCHANGED notCli

PresenceNext ==
  \/ Advance
  \/ \E h \in PresenceHosts : Heartbeat(h, "active", "monitoring")
  \/ PresencePartial(Wizardpanda)
  \/ \E h \in Callers : RemoteStatuses(h)
  \/ \E h \in Callers, t \in PingTargets : Ping(h, t)

SpecPresence == Init /\ [][PresenceNext]_vars

\* The presence files that belong to host h: the one named after h and every
\* one whose record names h.
FilesOf(h) ==
  {f \in DOMAIN presence : f = h \/ (Parses(presence[f]) /\ presence[f].hostname = h)}

\* Age of the record in file f.
Age(f) == now - presence[f].timestamp

\* One step keeps every presence file, and the age of a record that no
\* heartbeat rewrote does not shrink and grows when time passes.
AgeGrows ==
  /\ DOMAIN presence \subseteq DOMAIN presence'
  /\ \A f \in DOMAIN presence :
       Parses(presence[f]) /\ presence'[f] = presence[f]
         => /\ Age(f)' >= Age(f)
            /\ now' > now => Age(f)' > Age(f)

(***************************************************************************)
(* C13. Presence uniqueness: over any sequence of heartbeats by any hosts, *)
(* every host has at most one presence file at any time (a heartbeat       *)
(* overwrites the host's single record in place and no operation deletes   *)
(* it), a record is never dated in the future, and between two heartbeats  *)
(* of a host the age of its record grows as time passes.                   *)
(***************************************************************************)
C13_PresenceUnique ==
  /\ [](\A h \in PingTargets : Cardinality(FilesOf(h)) <= 1)
  /\ [](\A f \in DOMAIN presence : Parses(presence[f]) => Age(f) >= 0)
  /\ [][AgeGrows]_vars

\* Both hosts have a record, written at different times, and one has aged.
C13_Witness ==
  /\ PresenceHosts \subseteq DOMAIN presence
  /\ \A h \in PresenceHosts : Parses(presence[h])
  /\ presence[Quasar].timestamp > presence[Wizardpanda].timestamp
  /\ presence[Wizardpanda].timestamp > 0
  /\ Age(Quasar) > 0

(***************************************************************************)
(* NSync: sync cycles of this host among local and peer changes.           *)
(***************************************************************************)
notSync == <<mailVars, electVars, loopVars, supVars, bridgeVars, cliVars, ioVars, watchVars>>

\* `mcp nsync sync`, or the watcher's trigger: one run of sync().
Sync ==
  /\ RunSync(repo, FALSE)
  /\ UNCHANGED notSync

\* A file of the working tree is edited; same says that the edit touches lines
\* the peer changed too.
LocalEdit(same) ==
  /\ repo.ahead < MaxCommits
  /\ ~repo.rebase
  /\ repo' = [repo EXCEPT !.dirty = TRUE, !.clash = @ \/ same]
  /\ syncLog' = [syncLog EXCEPT !.quiet = FALSE]
  /\ UNCHANGED notSync

\* The peer commits to its master; same as for LocalEdit.
PeerCommit(same) ==
  /\ repo.behind < MaxCommits
  /\ repo' = [repo EXCEPT !.behind = @ + 1, !.clash = @ \/ same]
  /\ syncLog' = [syncLog EXCEPT !.quiet = FALSE]
  /\ UNCHANGED notSync

\* The peer goes off the network, or comes back.
PeerSwitch ==
  /\ repo' = [repo EXCEPT !.reachable = ~@]
  /\ syncLog' = [syncLog EXCEPT !.quiet = FALSE]
  /\ UNCHANGED notSync

\* A project directory appears without its mcp-global-rules link.
LinkLost ==
  /\ repo.links
  /\ ~repo.rebase
  /\ repo.ahead < MaxCommits
  /\ repo' = [repo EXCEPT !.links = FALSE]
  /\ syncLog' = [syncLog EXCEPT !.quiet = FALSE]
  /\ UNCHANGED notSync

SyncNext ==
  \/ Sync
  \/ \E same \in BOOLEAN : LocalEdit(same)
  \/ \E same \in BOOLEAN : PeerCommit(same)
  \/ PeerSwitch
  \/ LinkLost

SpecSync == Init /\ [][SyncNext]_vars

\* The steps of a cycle, in the order of sync().
SyncSteps == <<"links", "commit", "pull", "push">>

\* A step that exchanges commits with the peer ended with a non-zero status.
StepFailed(e) == e.cmd \in {"pull", "push"} /\ e.rc # 0

(***************************************************************************)
(* C14. sync() steps and abort on failure: one cycle runs link repair,     *)
(* commit, pull with rebase and push in this order, and a step that fails  *)
(* (the pull returning a non-zero exit status) is the last step the cycle  *)
(* runs.                                                                   *)
(***************************************************************************)
C14_AbortOnFailure ==
  LET trace == syncLog.trace
  IN trace # <<>> =>
       /\ Len(trace) <= Len(SyncSteps)
       /\ \A i \in 1..Len(trace) : trace[i].cmd = SyncSteps[i]
       /\ \A i \in 1..(Len(trace) - 1) : ~StepFailed(trace[i])
       /\ Len(trace) = Len(SyncSteps) \/ StepFailed(trace[Len(trace)])

(***************************************************************************)
(* C15. sync() idempotence: a sync() that runs right after another sync()  *)
(* with no local and no peer change in between creates no commit, moves no *)
(* commit to or from the peer, and leaves the clone (committed state and   *)
(* working directory) and the peer as the first run left them.             *)
(***************************************************************************)
C15_Idempotent ==
  syncLog.again /\ syncLog.quiet =>
    /\ repo = syncLog.before
    /\ \A i \in 1..Len(syncLog.trace) : syncLog.trace[i].n = 0

(***************************************************************************)
(* Messages that fail to parse, the order of a drained batch and the file  *)
(* names of the mailbox.                                                   *)
(***************************************************************************)

\* The step is a call of listen_for_messages().
Listened == lastOp'.kind = "listen" /\ lastOp' # lastOp

C17_SenderOrder ==
  lastOp.kind = "listen" =>
    \A i, j \in 1..Len(lastOp.ret) :
      /\ i < j
      /\ lastOp.ret[i].from = lastOp.ret[j].from
      /\ lastOp.ret[i].to = lastOp.ret[j].to
      => lastOp.ret[i].id <= lastOp.ret[j].id

\* The message written by the send_message call with history tag u is still
\* a file of the mailbox.
Waiting(u) == \E n \in DOMAIN mailbox : Parses(mailbox[n]) /\ mailbox[n].uid = u

(***************************************************************************)
(* C18. Message key uniqueness: two distinct send_message calls, also two  *)
(* by one sender to one recipient within one millisecond, write distinct   *)
(* files, so every message sent is either still in the mailbox or was      *)
(* returned by a listen_for_messages call.                                 *)
(***************************************************************************)
C18_KeyUnique ==
  \A u \in 1..nsent : Waiting(u) \/ delivered[u] >= 1

(***************************************************************************)
(* C19. ping exit code: for every name h, the caller's own included,       *)
(* `ping h` exits with 0 exactly when h has a readable presence record of  *)
(* age at most 60s, and with 1 when the record is absent or older.         *)
(***************************************************************************)
C19_PingExit ==
  lastRead.kind = "ping" =>
    /\ lastRead.exit \in {0, 1}
    /\ lastRead.exit = 0 <=> (lastRead.seen >= 0 /\ lastRead.seen <= 60)

\* The step is a call of AgentPresence.get_remote_status().
ReadRemotes == lastRead'.kind = "remotes" /\ lastRead' # lastRead

(***************************************************************************)
(* C20. remoteStatuses result: get_remote_status returns the presence      *)
(* record of every host other than the caller whose record parses, under   *)
(* that host's id, and nothing else; a record that fails to parse is left  *)
(* out without disturbing the other entries; the call changes no file.     *)
(***************************************************************************)
C20_RemoteStatuses ==
  [][ReadRemotes =>
       LET ret == lastRead'.ret
       IN /\ DOMAIN ret = {f \in DOMAIN presence :
                             f # lastRead'.caller /\ Parses(presence[f])}
          /\ \A h \in DOMAIN ret : ret[h] = presence[h] /\ ret[h].hostname = h
          /\ UNCHANGED <<presence, mailbox, inbox, outbox, staged>>]_vars

\* A call on a host with a record of its own returned one record and left
\* out one that does not parse.
C20_Witness ==
  /\ lastRead.kind = "remotes"
  /\ lastRead.caller \in DOMAIN presence
  /\ DOMAIN lastRead.ret # {}
  /\ \E f \in DOMAIN presence :
       f # lastRead.caller /\ ~Parses(presence[f]) /\ f \notin DOMAIN lastRead.ret

(***************************************************************************)
(* Replication: sync cycles that keep being triggered.                     *)
(***************************************************************************)

\* sync() keeps being triggered (the watcher, the 30s poll, the heartbeats).
SpecSyncFair == Init /\ [][SyncNext]_vars /\ WF_vars(Sync)

\* A change of the local or of the peer's directory.
LocalOrPeerChange ==
  \/ \E same \in BOOLEAN : LocalEdit(same)
  \/ \E same \in BOOLEAN : PeerCommit(same)
  \/ LinkLost

\* Both sides hold the same history and the working tree holds nothing else.
InSync ==
  /\ repo.ahead = 0
  /\ repo.behind = 0
  /\ ~repo.dirty
  /\ ~repo.rebase

(***************************************************************************)
(* C21. Eventual consistency: when local and peer changes stop and the     *)
(* peer stays reachable while sync() cycles keep being triggered, then     *)
(* from some time on both hosts hold the same contents: every local commit *)
(* (a message file written by send_message) is on the peer and every peer  *)
(* commit is in the local directory.                                       *)
(***************************************************************************)
C21_EventuallyConsistent ==
  \/ []<><<LocalOrPeerChange>>_vars
  \/ []<>(~repo.reachable)
  \/ <>[]InSync

(***************************************************************************)
(* The Agent Loop on a shared directory that may refuse writes.            *)
(***************************************************************************)

\* The shared directory stops, or starts again, accepting writes (disk full,
\* read-only mount, permissions).
StoreSwitch ==
  /\ writable' = ~writable
  /\ UNCHANGED <<platform, mailVars, electVars, loopVars, supVars, bridgeVars, cliVars, syncVars, watchVars>>

IoNext ==
  \/ LoopNext
  \/ StoreSwitch

SpecIo == Init /\ [][IoNext]_vars

(***************************************************************************)
(* C22. I/O failures are not propagated: a failing write of the presence   *)
(* record in AgentPresence.update or of the message file in send_message   *)
(* raises nothing to the caller, so an Agent Loop that calls them is never *)
(* ended by the failure.                                                   *)
(***************************************************************************)
C22_IoNotPropagated == \A h \in LoopHosts : loop[h].pc # "ioerror"

(***************************************************************************)
(* Who writes a presence file: every `mcp comms` operation, run by either  *)
(* of two hosts.                                                           *)
(***************************************************************************)
OwnerHosts == {Quasar, Wizardpanda}

\* `mcp comms status` on host hostname: the local record (written first when
\* the file is missing) and the remote records with their ACTIVE flag.
ShowStatus(hostname) ==
  IF hostname \in DOMAIN presence
  THEN /\ Parses(presence[hostname])
       /\ lastRead' = [kind |-> "status", caller |-> hostname,
                       local |-> presence[hostname],
                       ret |-> GetRemoteStatus(hostname),
                       active |-> {h \in DOMAIN GetRemoteStatus(hostname) :
                                     now - presence[h].timestamp < ACTIVE_AGE}]
       /\ UNCHANGED notCli
  ELSE /\ writable
       /\ presence' = WriteFile(presence, hostname,
                                PresenceRecord(hostname, "active", "monitoring", now))
       /\ RunSync([repo EXCEPT !.dirty = TRUE], TRUE)
       /\ lastRead' = [kind |-> "status", caller |-> hostname,
                       local |-> PresenceRecord(hostname, "active", "monitoring", now),
                       ret |-> GetRemoteStatus(hostname),
                       active |-> {h \in DOMAIN GetRemoteStatus(hostname) :
                                     now - presence[h].timestamp < ACTIVE_AGE}]
       /\ UNCHANGED <<mailVars, now, inbox, lastPoll, loopVars, supVars, bridgeVars, ioVars, watchVars>>

\* Arguments of `mcp comms heartbeat`.
Statuses == {"active", "idle"}

\* Every operation is run by wizardpanda next to Quasar's record; the
\* operations that write a presence file are run by both.
OwnerNext ==
  \/ \E g \in OwnerHosts :
       \/ \E st \in Statuses : Heartbeat(g, st, "monitoring")
       \/ ShowStatus(g)
  \/ RemoteStatuses(Wizardpanda)
  \/ Ping(Wizardpanda, Quasar)
  \/ SendMessage(Wizardpanda, Quasar, "task", [text |-> TextPing])
  \/ ListenForMessages(Quasar)
  \/ ListenForTelegramMessages(Wizardpanda)

SpecOwner == Init /\ [][OwnerNext]_vars

\* The step creates, rewrites or removes the presence file of host h.
PresenceTouched(h) ==
  \/ h \in DOMAIN presence /\ h \notin DOMAIN presence'
  \/ h \in DOMAIN presence' /\ h \notin DOMAIN presence
  \/ h \in DOMAIN presence /\ h \in DOMAIN presence' /\ presence'[h] # presence[h]

\* The step is AgentPresence.update running under the identity h.
UpdateBy(h) ==
  \/ \E st \in Statuses : Heartbeat(h, st, "monitoring")
  \/ ShowStatus(h) /\ h \notin DOMAIN presence

(***************************************************************************)
(* C23. Presence single-writer: an operation run by host g (update,        *)
(* get_remote_status, send_message, listen_for_messages,                   *)
(* listen_for_telegram_messages, ping, status) leaves the presence file of *)
(* every other host unchanged: a presence file is created or rewritten     *)
(* only by AgentPresence.update running under its owner's identity, and    *)
(* the record written names the owner.                                     *)
(***************************************************************************)
C23_SingleWriter ==
  [][\A h \in DOMAIN presence \cup DOMAIN presence' :
       PresenceTouched(h) =>
         /\ UpdateBy(h)
         /\ presence'[h].hostname = h
         /\ \A k \in (DOMAIN presence \cup DOMAIN presence') \ {h} : ~PresenceTouched(k)]_vars

\* Both hosts have written their record, one through `status`, and both have
\* read the other's.
C23_Witness ==
  /\ OwnerHosts \subseteq DOMAIN presence
  /\ presence[Quasar].status # presence[Wizardpanda].status
  /\ lastRead.kind = "status"
  /\ DOMAIN lastRead.ret # {}
  /\ nsent > 0

(***************************************************************************)
(* Start attempts of the Supervisor on either platform.                    *)
(***************************************************************************)

\* The host runs Windows (os.name == 'nt'); fixed before anything starts.
OnWindows ==
  /\ platform = "posix"
  /\ ~watch.up
  /\ \A p \in Procs : launcher[p] = "idle"
  /\ platform' = "nt"
  /\ UNCHANGED <<writable, mailVars, electVars, loopVars, supVars, bridgeVars, cliVars, syncVars, watchVars>>

PidNext ==
  \/ OnWindows
  \/ LaunchNext

SpecPid == Init /\ [][PidNext]_vars

\* Process p runs is_already_running() in this step.
Probes(p) == launcher[p] = "started" /\ launcher'[p] # "started"

(***************************************************************************)
(* C24. Stale PID recovery: a starting Supervisor that finds a PID file    *)
(* naming a process that does not exist is told not-running, replaces the  *)
(* file with its own pid and goes on to supervise; one that finds a PID    *)
(* file naming a live process exits.                                       *)
(***************************************************************************)
C24_StalePid ==
  /\ [][\A p \in Procs :
          Probes(p) /\ pidFile # 0 =>
            IF Alive(pidFile)
            THEN launcher'[p] = "declined" /\ pidFile' = pidFile
            ELSE launcher'[p] = "checked"]_vars
  /\ [][\A p \in Procs :
          launcher[p] = "checked" /\ launcher'[p] # "checked" =>
            launcher'[p] = "run" /\ pidFile' = p]_vars

(***************************************************************************)
(* The supervision loop without the clock: every time.sleep() returns.     *)
(***************************************************************************)

\* The time.sleep() that supervisor p is in returns.
Wake(p) ==
  /\ launcher[p] = "run"
  /\ sup[p].wake > now
  /\ sup' = [sup EXCEPT ![p].wake = now]
  /\ UNCHANGED <<launcher, pidFile, config, raises, now, notSup>>

RestartNext ==
  \/ \E p \in Procs : LaunchAlone(p)
  \/ \E p \in Procs : IsAlreadyRunning(p)
  \/ \E p \in Procs : WritePid(p)
  \/ \E p \in Procs : SupTop(p)
  \/ \E p \in Procs : SupMonitor(p)
  \/ \E p \in Procs : SupBackoffDone(p)
  \/ \E p \in Procs : Wake(p)
  \/ \E p \in Procs : AgentExit(p)
  \/ \E p \in Procs : BridgeExit(p)
  \/ ConfigWrite
  \/ ConfigRemove
  \/ \E p \in Procs : Stop(p)
  \/ \E p \in Procs : Kill(p)

\* A running supervisor keeps executing: its sleeps end and its loop goes on.
SpecRestart ==
  /\ Init
  /\ [][RestartNext]_vars
  /\ \A p \in Procs :
       /\ WF_vars(Wake(p))
       /\ WF_vars(SupTop(p))
       /\ WF_vars(SupMonitor(p))
       /\ WF_vars(SupBackoffDone(p))

(***************************************************************************)
(* C25. Unconditional Agent Loop restart: while the Supervisor is running, *)
(* whenever its Agent Loop child has exited, the Supervisor eventually has *)
(* a new Agent Loop child, after any number of earlier restarts and        *)
(* whatever way the child ended.                                           *)
(***************************************************************************)
C25_AlwaysRestarts ==
  \A p \in Procs :
    Pending(p) ~> (sup[p].process = "alive" \/ launcher[p] # "run")

\* A child was replaced after the supervision loop had raised and backed off.
C25_Witness ==
  \E p \in Procs : Respawned(p) /\ ~sup[p].clean /\ raises = MaxRaises

(***************************************************************************)
(* The Channel Bridge child under the monitoring loop.                     *)
(***************************************************************************)

\* Supervisor p runs one pass of its monitoring loop in this step.
Polled(p) ==
  /\ launcher[p] = "run" /\ launcher'[p] = "run"
  /\ sup[p].pc = "monitor"
  /\ sup[p].wake <= now
  /\ sup'[p].wake # sup[p].wake \/ sup'[p].pc # "monitor"

\* A Bridge child of p is started in this step.
BridgeStarted(p) == sup[p].t_process # "alive" /\ sup'[p].t_process = "alive"

(***************************************************************************)
(* C26 as stated. At every supervision poll while the Agent Loop child is  *)
(* alive: with the configuration file present and no Bridge child running, *)
(* a Bridge child is started; with the file absent and a Bridge child      *)
(* running, that child is terminated; and no Bridge child is ever started  *)
(* while the file is absent.                                               *)
(***************************************************************************)
C26_BridgeReactive ==
  [][\A p \in Procs :
       /\ Polled(p) /\ sup[p].process = "alive" =>
            /\ config /\ sup[p].t_process # "alive" => sup'[p].t_process = "alive"
            /\ ~config /\ sup[p].t_process = "alive" => sup'[p].t_process # "alive"
       /\ BridgeStarted(p) => config]_vars

(***************************************************************************)
(* C26 amended. At every supervision poll while the Agent Loop child is    *)
(* alive: with the configuration file present and no Bridge child running, *)
(* a Bridge child is started unless the spawn raises, in which case none   *)
(* is started at this poll and the loop backs off for 10 s; with the file  *)
(* present and the Bridge running, or the file absent and no Bridge        *)
(* running, the Bridge is left as it is; with the file absent and a Bridge *)
(* child running, that child is terminated; no Bridge child is ever        *)
(* started while the file is absent.                                       *)
(***************************************************************************)
C26_BridgeReactiveUnlessRaised ==
  [][\A p \in Procs :
       /\ Polled(p) /\ sup[p].process = "alive" =>
            /\ config /\ sup[p].t_process # "alive" =>
                 \/ sup'[p].t_process = "alive" /\ sup'[p].pc = "monitor"
                 \/ /\ sup'[p].pc = "backoff"
                    /\ sup'[p].wake = now + BACKOFF
                    /\ sup'[p].t_process = sup[p].t_process
            /\ config /\ sup[p].t_process = "alive" => sup'[p].t_process = "alive"
            /\ ~config /\ sup[p].t_process # "alive" => sup'[p].t_process = sup[p].t_process
            /\ ~config /\ sup[p].t_process = "alive" => sup'[p].t_process = "none"
       /\ BridgeStarted(p) => config]_vars

\* A poll later than the first has just left a Bridge child running next to
\* the live Agent Loop, with the configuration present.
C26_Witness ==
  \E p \in Procs :
    /\ launcher[p] = "run"
    /\ sup[p].process = "alive"
    /\ sup[p].t_process = "alive"
    /\ config
    /\ sup[p].pc = "monitor"
    /\ now >= POLL_INTERVAL
    /\ sup[p].wake = now + POLL_INTERVAL

(***************************************************************************)
(* listen_for_messages step by step, run by several processes of one host. *)
(***************************************************************************)
RecvHost == HostB

notRecv == <<electVars, loopVars, supVars, bridgeVars, cliVars, syncVars, ioVars, watch>>

\* mailbox.glob(f"{hostname}_*.json"): the directory is listed once, when the
\* for loop asks for its first file.
RecvList(r) ==
  /\ recv[r].pc \in {"idle", "crashed"}
  /\ \E order \in Orders(Globbed(mailbox, RecvHost)) :
       recv' = [recv EXCEPT ![r] = [pc |-> "loop", todo |-> order, messages |-> <<>>]]
  /\ UNCHANGED <<mailVars, crashed, notRecv>>

\* with open(f, "r") as mf: msg = json.load(mf); messages.append(msg). A file
\* that is gone or does not parse raises, which the except clause passes over.
RecvRead(r) ==
  /\ recv[r].pc = "loop"
  /\ recv[r].todo # <<>>
  /\ LET f == Head(recv[r].todo)
     IN IF f \in DOMAIN mailbox /\ Parses(mailbox[f])
        THEN recv' = [recv EXCEPT ![r].pc = "unlink",
                                  ![r].messages = Append(@, mailbox[f])]
        ELSE recv' = [recv EXCEPT ![r].todo = Tail(@)]
  /\ UNCHANGED <<mailVars, crashed, notRecv>>

\* f.unlink(). When the file is gone it raises FileNotFoundError, which the
\* except clause passes over; the message stays appended.
RecvUnlink(r) ==
  /\ recv[r].pc = "unlink"
  /\ recv' = [recv EXCEPT ![r].pc = "loop", ![r].todo = Tail(@)]
  /\ mailbox' = Unlink(mailbox, Head(recv[r].todo))
  /\ UNCHANGED <<clock, nsent, delivered, lastOp, crashed, notRecv>>

\* return messages
RecvReturn(r) ==
  /\ recv[r].pc = "loop"
  /\ recv[r].todo = <<>>
  /\ LET messages == recv[r].messages
     IN delivered' = [u \in 1..MaxSends |->
                        delivered[u] + Cardinality({i \in 1..Len(messages) : messages[i].uid = u})]
  /\ recv' = [recv EXCEPT ![r].pc = "idle"]
  /\ UNCHANGED <<clock, mailbox, nsent, lastOp, crashed, notRecv>>

\* The process dies between json.load and f.unlink(); its list is lost.
RecvCrash(r) ==
  /\ recv[r].pc = "unlink"
  /\ recv' = [recv EXCEPT ![r] = [RecvIdle EXCEPT !.pc = "crashed"]]
  /\ crashed' = crashed \cup {recv[r].messages[Len(recv[r].messages)].uid}
  /\ UNCHANGED <<mailVars, notRecv>>

RecvNext ==
  \/ Tick
  \/ \E m \in Sendable : SendMessage(HostA, RecvHost, m[1], [text |-> m[2]])
  \/ \E r \in Receivers : RecvList(r)
  \/ \E r \in Receivers : RecvRead(r)
  \/ \E r \in Receivers : RecvUnlink(r)
  \/ \E r \in Receivers : RecvReturn(r)
  \/ \E r \in Receivers : RecvCrash(r)

SpecReceive == Init /\ [][RecvNext]_vars

\* Receiver r dies in this step, after json.load and before f.unlink().
CrashInWindow(r) == recv[r].pc = "unlink" /\ recv'[r].pc = "crashed"

(***************************************************************************)
(* C27. When the receiving process crashes after parsing a message file    *)
(* and before deleting it, the file is still in the mailbox, for the next  *)
(* listen_for_messages to return it; and a message is returned by two      *)
(* receive calls of the host only if such a crash hit it.                  *)
(***************************************************************************)
C27_CrashRedelivery ==
  [][/\ \A r \in Receivers :
          CrashInWindow(r) => Head(recv[r].todo) \in DOMAIN mailbox'
     /\ \A u \in 1..MaxSends : delivered'[u] > 1 => u \in crashed']_vars

(***************************************************************************)
(* C30. With no crash, each message file is returned by at most one of the *)
(* receive calls that processes of the host run concurrently.              *)
(***************************************************************************)
C30_NoDuplicate ==
  (crashed = {} /\ \A r \in Receivers : recv[r].pc # "crashed")
     => \A u \in 1..MaxSends : delivered[u] <= 1

(***************************************************************************)
(* `nsync watch`: the observer thread that dispatches file events to       *)
(* NSyncHandler.on_any_event and, on nt, the poll_remote thread.  Both     *)
(* walk through the steps of the one sync() of the handler.                *)
(***************************************************************************)
\* Seconds followed one by one after start_watch and around the first wake
\* of the poll thread; events generated over a run.
MaxWatchTime == 4
MaxEvents == 2

\* When the first sleep of the poll thread ends.
FirstWake == WatchEpoch + POLL_REMOTE_SLEEP

notWatch == <<mailVars, electVars, loopVars, supVars, bridgeVars, cliVars, syncLog, ioVars,
              recv, crashed>>

EventKinds == {"file", "skipped"}

\* start_watch: handler and observer are set up; the poll thread is started
\* on nt only.
StartWatch ==
  /\ ~watch.up
  /\ watch' = [watch EXCEPT !.up = TRUE,
                            !.poll = IF platform = "nt"
                                     THEN [pc |-> "sleep", wake |-> watch.t + POLL_REMOTE_SLEEP]
                                     ELSE @]
  /\ UNCHANGED <<repo, notWatch>>

\* A second passes.
WatchElapse ==
  /\ watch.up
  /\ \/ watch.t < WatchEpoch + MaxWatchTime
     \/ watch.t >= FirstWake - debounce /\ watch.t < FirstWake + MaxWatchTime
  /\ watch' = [watch EXCEPT !.t = @ + 1]
  /\ UNCHANGED <<repo, notWatch>>

\* Most of the sleep of the poll thread passes at once.
WatchElapseToPoll ==
  /\ watch.poll.pc = "sleep"
  /\ watch.t < watch.poll.wake - debounce
  /\ watch.poll.wake = FirstWake
  /\ watch' = [watch EXCEPT !.t = watch.poll.wake - debounce]
  /\ UNCHANGED <<repo, notWatch>>

\* A change under the watched directory: the observer queues an event.  A
\* "file" event is a changed file of the working tree, a "skipped" one is a
\* directory event or a path under .git.
LocalChange(kind) ==
  /\ watch.up
  /\ watch.nev < MaxEvents
  /\ kind = "file" => repo.ahead < MaxCommits /\ ~repo.rebase
  /\ watch' = [watch EXCEPT !.queue = Append(@, kind), !.nev = @ + 1,
                            !.unsynced = @ \/ kind = "file"]
  /\ repo' = IF kind = "file" THEN [repo EXCEPT !.dirty = TRUE] ELSE repo
  /\ UNCHANGED notWatch

\* now - self.last_sync > self.debounce
DebounceOpen(now_, last_sync) == now_ - last_sync > debounce

\* on_any_event up to the call of self.sync(): the observer thread takes the
\* next event; a skipped event returns at once, a file event enters sync()
\* when the debounce test passes and is dropped otherwise.
OnAnyEvent ==
  /\ watch.ev.pc = "idle"
  /\ watch.queue # <<>>
  /\ LET event == Head(watch.queue)
         now_ == watch.t
     IN IF event = "file" /\ DebounceOpen(now_, watch.last_sync)
        THEN watch' = [watch EXCEPT !.queue = Tail(@),
                                    !.ev = [pc |-> "links", now |-> now_],
                                    !.unsynced = FALSE]
        ELSE watch' = [watch EXCEPT !.queue = Tail(@)]
  /\ UNCHANGED <<repo, notWatch>>

\* The step of sync() that a thread at pc runs on the clone.
SyncStepOn(pc, r) ==
  CASE pc = "links" -> EnsureRulesLinks(r)
    [] pc = "commit" -> GitCommit(r).repo
    [] pc = "pull" -> GitPull(r).repo
    [] pc = "push" -> GitPush(r).repo

NextStep(pc) ==
  CASE pc = "links" -> "commit"
    [] pc = "commit" -> "pull"
    [] pc = "pull" -> "push"
    [] pc = "push" -> "done"

InSyncCall(pc) == pc \in {"links", "commit", "pull", "push"}

\* The observer thread runs the next step of self.sync(); after the last one
\* on_any_event stores the time it read before the call in self.last_sync.
EventSyncStep ==
  /\ InSyncCall(watch.ev.pc)
  /\ repo' = SyncStepOn(watch.ev.pc, repo)
  /\ watch' = IF NextStep(watch.ev.pc) = "done"
              THEN [watch EXCEPT !.ev = ThreadIdle, !.last_sync = watch.ev.now]
              ELSE [watch EXCEPT !.ev.pc = NextStep(@)]
  /\ UNCHANGED notWatch

PollWakeDebounced ==
  /\ watch.poll.pc = "sleep"
  /\ watch.t >= watch.poll.wake
  /\ watch' = IF DebounceOpen(watch.t, watch.last_sync) /\ watch.ev.pc = "idle"
              THEN [watch EXCEPT !.poll.pc = "links"]
              ELSE [watch EXCEPT !.poll.wake = watch.t + POLL_REMOTE_SLEEP]
  /\ UNCHANGED <<repo, notWatch>>

\* poll_remote: time.sleep(30) has returned; handler.sync() is called.
PollWake ==
  /\ watch.poll.pc = "sleep"
  /\ watch.t >= watch.poll.wake
  /\ watch' = [watch EXCEPT !.poll.pc = "links"]
  /\ UNCHANGED <<repo, notWatch>>

\* The poll thread runs the next step of handler.sync(); after the last one it
\* sleeps again.
PollSyncStep ==
  /\ InSyncCall(watch.poll.pc)
  /\ repo' = SyncStepOn(watch.poll.pc, repo)
  /\ watch' = IF NextStep(watch.poll.pc) = "done"
              THEN [watch EXCEPT !.poll = [pc |-> "sleep", wake |-> watch.t + POLL_REMOTE_SLEEP]]
              ELSE [watch EXCEPT !.poll.pc = NextStep(@)]
  /\ UNCHANGED notWatch

WatchNext ==
  \/ OnWindows
  \/ StartWatch
  \/ WatchElapse
  \/ WatchElapseToPoll
  \/ \E kind \in EventKinds : LocalChange(kind)
  \/ OnAnyEvent
  \/ EventSyncStep
  \/ PollWake
  \/ PollSyncStep

SpecWatch == Init /\ [][WatchNext]_vars

\* The threads of the watcher keep running and time passes.
SpecWatchFair ==
  /\ Init /\ [][WatchNext]_vars
  /\ WF_vars(StartWatch) /\ WF_vars(WatchElapse)
  /\ WF_vars(OnAnyEvent) /\ WF_vars(EventSyncStep)
  /\ WF_vars(PollWake) /\ WF_vars(PollSyncStep)

(***************************************************************************)
(* C28. Every local change event is followed by a sync() that the event    *)
(* handler starts after it: the reaction to a burst comes after its last   *)
(* event, so that the final state of the burst is committed and pushed.    *)
(***************************************************************************)
C28_Debounced == watch.unsynced ~> ~watch.unsynced

\* The poll thread moves in this step.
PollStep == watch'.poll # watch.poll

(***************************************************************************)
(* C29. The poll thread exists on nt only; when its sleep is over it       *)
(* enters sync() whatever the debounce timestamp and whatever the observer *)
(* thread is doing, and no step of it changes the debounce timestamp.      *)
(* That two sync() invocations are then in progress together is shown by   *)
(* the reachable state C29_Witness.                                        *)
(***************************************************************************)
C29_PollUnguarded ==
  [][/\ PollStep /\ watch.poll.pc = "sleep" => watch'.poll.pc = "links"
     /\ PollStep => watch'.last_sync = watch.last_sync
     /\ watch'.poll.pc # "off" => platform' = "nt"]_vars

\* The observer thread and the poll thread are both inside sync().
C29_Witness ==
  /\ platform = "nt"
  /\ InSyncCall(watch.ev.pc)
  /\ InSyncCall(watch.poll.pc)

(***************************************************************************)
(* C31. Recipient isolation: a call of listen_for_messages on host g       *)
(* returns only messages whose `to` field is g and deletes only files of   *)
(* such messages, also when another identity is g followed by "_" and more.*)
(***************************************************************************)
C31_RecipientIsolation ==
  [][/\ lastOp'.kind = "listen" =>
          \A i \in 1..Len(lastOp'.ret) : lastOp'.ret[i].to = lastOp'.host
     /\ \A f \in (DOMAIN mailbox) \ (DOMAIN mailbox') :
          Parses(mailbox[f]) => lastOp'.kind = "listen" /\ mailbox[f].to = lastOp'.host]_vars

(***************************************************************************)
(* C32. No lost task in a batch: once the Agent Loop is through with the   *)
(* batch of a poll, or has left the loop for a reason other than an        *)
(* interrupt, every task or instruction message of that batch has exactly  *)
(* one reply sent to its sender, whatever else the batch holds.            *)
(***************************************************************************)
C32_NoLostTask ==
  \A h \in LoopHosts :
    BatchDone(h) \/ loop[h].pc = "ioerror" =>
      \A i \in 1..Len(cycle[h].drained) :
        LET m == cycle[h].drained[i]
        IN /\ "type" \in DOMAIN m
           /\ "from" \in DOMAIN m
           /\ m.type \in {"task", "instruction"}
           => Cardinality({j \in 1..Len(cycle[h].replies) :
                             /\ cycle[h].replies[j].re = i
                             /\ cycle[h].replies[j].to = m.from}) = 1

(***************************************************************************)
(* C33. At most one Agent Loop child: a Supervisor spawns an Agent Loop    *)
(* only when its previous Agent Loop child has exited, also after an       *)
(* exception inside the monitoring loop and the back-off that follows, so  *)
(* it never has two live Agent Loop children.                              *)
(***************************************************************************)
C33_OneAgentLoop == \A p \in Procs : sup[p].orphans = 0

(***************************************************************************)
(* C34. A staged outbound file is deleted only after success: whenever     *)
(* check_outbox takes an item out of the outbox and leaves it neither      *)
(* there nor in the buffer directory, or removes an item from the buffer   *)
(* directory, the endpoint has accepted the text of that item.             *)
(***************************************************************************)
C34_RemovedOnlyOnSuccess ==
  [][/\ \A f \in (DOMAIN outbox) \ (DOMAIN outbox') :
          \/ f \in DOMAIN staged' /\ staged'[f] = outbox[f]
          \/ outbox[f].text \in endpoint'.accepted
     /\ \A f \in DOMAIN staged :
          \/ f \in DOMAIN staged' /\ staged'[f] = staged[f]
          \/ staged[f].text \in endpoint'.accepted]_vars

(***************************************************************************)
(* C35. No inbound item overwritten: the items of the configured chat that *)
(* one poll hands to handle_instruction are written to pairwise distinct   *)
(* inbox files, also two items for one target written within the same      *)
(* millisecond, so no file of an item is replaced by a later item.         *)
(***************************************************************************)
C35_NoOverwrite ==
  Answered(pollLog.last) =>
    \A i, j \in DOMAIN pollLog.last.files :
      i # j => pollLog.last.files[i] # pollLog.last.files[j]

(***************************************************************************)
(* The inbox from the bridge to the Agent Loops: the bridge of a posix     *)
(* host routes what the user sends, and the Agent Loops of the hosts keep  *)
(* calling listen_for_telegram_messages.  File names are compared as the   *)
(* file system of a posix host compares them, letter case included.        *)
(***************************************************************************)
ConsumeHosts == {Wizardpanda, Antigravity}

ConsumeTexts == {TextPlain, TextSlotColon, TextSlotBare}

ConsumeNext ==
  \/ \E text \in ConsumeTexts : UserSends(ChatId, text)
  \/ PollTelegram(Wizardpanda)
  \/ \E h \in ConsumeHosts : ListenForTelegramMessages(h)

\* Every Agent Loop keeps cycling.
SpecConsume ==
  /\ Init /\ [][ConsumeNext]_vars
  /\ \A h \in ConsumeHosts : WF_vars(ListenForTelegramMessages(h))

\* An inbox file written for target T is waiting.
WaitingFor(T) == \E f \in DOMAIN inbox : Lower(TargetOf(f)) = Lower(T)

(***************************************************************************)
(* C36. Routed channel items are consumed by their target: an inbox file   *)
(* that the bridge wrote for target T (the default identity, 'to T:' or    *)
(* the shared slot) does not stay in the inbox for ever while the Agent    *)
(* Loop of the host with identity T keeps cycling, whatever the letter     *)
(* case of T.                                                              *)
(***************************************************************************)
C36_Consumed ==
  \A T \in ConsumeHosts : WaitingFor(T) ~> ~WaitingFor(T)

(***************************************************************************)
(* Two Agent Loops, on A and on B, and one message sent to B from the      *)
(* command line of A.  No file reaches the channel inbox here, so the      *)
(* `for tm in t_msgs` of the loops has no iteration.                       *)
(***************************************************************************)
ReplySendable == {<<"task", TextPing>>, <<"instruction", TextStatus>>, <<"result", TextPing>>}

\* The next statement of the Agent Loop process of h.
LoopStep(h) ==
  \/ \E v \in {"scripts", "legacy"} : LoopStart(h, v)
  \/ LoopPoll(h)
  \/ LoopHandle(h)
  \/ LoopPollTelegram(h)
  \/ LoopSleepBeat(h)

\* The one message of the run: `mcp comms send B <type> <text>` on A.
ReplySend(msg_type, content) ==
  /\ nsent = 0
  /\ SendMessage(HostA, HostB, msg_type, content)

ReplyNext ==
  \/ \E m \in ReplySendable : ReplySend(m[1], [text |-> m[2]])
  \/ \E h \in ReplyHosts : LoopStep(h)

\* Both loops are started and keep cycling.
SpecReply ==
  /\ Init /\ [][ReplyNext]_vars
  /\ \A h \in ReplyHosts : WF_vars(LoopStep(h))

\* File f is written in this step by a call that is not the command line's
\* send (history tag 0): a message of an Agent Loop.
LoopWrote(f) ==
  /\ f \in DOMAIN mailbox'
  /\ f \notin DOMAIN mailbox \/ mailbox'[f] # mailbox[f]
  /\ mailbox'[f].uid = 0

\* The loop of h handles a task or instruction in this step and goes on to
\* the next message of its batch.
HandlesTask(h, sender) ==
  /\ loop[h].pc = "handle"
  /\ loop[h].queue # <<>>
  /\ Head(loop[h].queue).type \in {"task", "instruction"}
  /\ Head(loop[h].queue).from = sender
  /\ loop'[h].queue = Tail(loop[h].queue)

(***************************************************************************)
(* C37. No reply loop: every message an Agent Loop sends is a reply of     *)
(* type result or ack, sent while it handles one task or instruction       *)
(* message and addressed to that message's sender, one reply for that      *)
(* message; a batch that is done has one reply for each of its tasks; and  *)
(* once the message is sent, the mailbox eventually becomes and stays      *)
(* empty.                                                                  *)
(***************************************************************************)
C37_NoReplyLoop ==
  /\ [][\A f \in DOMAIN mailbox' :
          LoopWrote(f) =>
            /\ mailbox'[f].type \in {"result", "ack"}
            /\ \E h \in ReplyHosts :
                 /\ HandlesTask(h, mailbox'[f].to)
                 /\ mailbox'[f].from = h
            /\ \A g \in (DOMAIN mailbox') \ {f} : ~LoopWrote(g)]_vars
  /\ [](\A h \in ReplyHosts :
         BatchDone(h) =>
           \A i \in 1..Len(cycle[h].drained) :
             cycle[h].drained[i].type \in {"task", "instruction"} =>
               Cardinality({j \in 1..Len(cycle[h].replies) :
                              cycle[h].replies[j].re = i}) = 1)
  /\ <>[](mailbox = <<>>)

\* The loop of A has drained the reply to the task and answered nothing; the
\* mailbox is empty.
C37_Witness ==
  /\ mailbox = <<>>
  /\ nsent > 0
  /\ BatchDone(HostA)
  /\ cycle[HostA].replies = <<>>
  /\ \E i \in 1..Len(cycle[HostA].drained) :
       cycle[HostA].drained[i].type \in {"result", "ack"}

(***************************************************************************)
(* The bridges of both hosts polling while the primary's presence record   *)
(* is written, ages and is seen half-written.  The user sends nothing, so  *)
(* an answered request brings an empty batch.                              *)
(***************************************************************************)
PollerNext ==
  \/ Advance
  \/ Heartbeat(Quasar, "active", "listening for team tasks")
  \/ PresencePartial(Quasar)
  \/ \E h \in BridgeHosts : PollTelegram(h)

SpecPoller == Init /\ [][PollerNext]_vars

\* The presence record of the primary is readable and younger than 120 s.
PrimaryFresh ==
  /\ Quasar \in DOMAIN presence
  /\ Parses(presence[Quasar])
  /\ now - presence[Quasar].timestamp < BRIDGE_PEER_TIMEOUT

\* poll_telegram runs on the bridge of h in this step.
PollBy(h) == pollLog' # pollLog /\ pollLog'.last.host = h

(***************************************************************************)
(* C38. Single poller: a cycle of the bridge on the non-primary host       *)
(* (wizardpanda) sends no request to the endpoint when a readable presence *)
(* record of the primary, younger than 120 s, is visible to it; it sends   *)
(* one only when that record is absent, unparseable or at least 120 s old. *)
(***************************************************************************)
C38_SinglePoller ==
  [][PollBy(Wizardpanda) =>
       /\ PrimaryFresh => pollLog'.last.kind = "skip"
       /\ pollLog'.last.kind # "skip" =>
            \/ Quasar \notin DOMAIN presence
            \/ ~Parses(presence[Quasar])
            \/ now - presence[Quasar].timestamp >= BRIDGE_PEER_TIMEOUT]_vars

\* The bridge of wizardpanda has just returned without a request.
C38_Witness ==
  /\ pollLog.last.kind = "skip"
  /\ pollLog.last.host = Wizardpanda
  /\ PrimaryFresh

(***************************************************************************)
(* C39. PID file integrity: whenever a Supervisor is inside                *)
(* run_collaboration, the PID file exists and holds the pid of a running   *)
(* Supervisor; and no step of a start attempt or of another Supervisor     *)
(* removes or replaces the PID file that names a Supervisor which keeps    *)
(* running.                                                                *)
(***************************************************************************)
C39_PidFileIntegrity ==
  [][/\ \A p \in Procs :
          launcher'[p] = "run" => pidFile' # 0 /\ launcher'[pidFile'] = "run"
     /\ pidFile # 0 /\ launcher[pidFile] = "run" /\ launcher'[pidFile] = "run"
          => pidFile' = pidFile]_vars

====
